---- MODULE Spec2Model ----
(***************************************************************************)
(* A model of the pattern engine of rew: the Lexer of the pattern          *)
(* language (src/pattern/lexer.rs) and the evaluation of a parsed Pattern  *)
(* (src/bin/rew/pattern/mod.rs, src/bin/rew/pattern/filter/mod.rs).        *)
(*                                                                         *)
(* Strings are sequences of one-character strings, so that concatenation,  *)
(* slicing and offsets are computed and not assumed.                       *)
(***************************************************************************)
EXTENDS Integers, Sequences, FiniteSets, TLC

VARIABLES
    \* ---- Lexer (src/pattern/lexer.rs) ----
    source,         \* Source: the characters of the pattern text
    lexer,          \* Lexer fields: index (of Source), position, character, in_expression
    tokens,         \* the tokens returned by next() so far, in order
    lexState,       \* "running", "ended" (next() returned None) or "panicked"
    \* ---- Pattern evaluation (src/bin/rew/pattern/mod.rs) ----
    pattern,        \* Pattern.items: the parsed items, shared by all callers
    callers,        \* the callers evaluating the pattern
    input,          \* input[c]: the input string caller c passes to eval
    context,        \* context[c]: the eval::Context caller c passes to eval
    given,          \* given[c]: the context as caller c last set it
    eval,           \* eval[c]: the locals of caller c's running Pattern::eval
    prev,           \* prev[c]: the context and result of caller c's last finished eval
    rendered,       \* rendered[c]: the result of caller c's last Variable::eval
    fs,             \* the paths that exist on disk, relative to the current directory
    \* ---- Parsing (src/bin/rew/pattern/filter/mod.rs, src/pattern/variable.rs) ----
    reader,         \* Reader: the characters of a segment and how many have been read
    outcome,        \* the last call made on the reader or on a parsed filter, with its result
    parsed,         \* the result of Pattern::parse on the source
    \* ---- Reading values (src/input.rs, src/common/transfer/input.rs) ----
    stream,         \* the bytes of the input, how many were read, the byte that ends a value
    diff_position,  \* PathDiff.position: the number and offset of the next value
    returned        \* the results of the calls of next() or read() so far

lexVars == <<source, lexer, tokens, lexState>>

evalVars == <<pattern, callers, input, context, given, eval, prev, rendered, fs>>

parseVars == <<reader, outcome, parsed>>

ioVars == <<stream, diff_position, returned>>

vars == <<source, lexer, tokens, lexState,
          pattern, callers, input, context, given, eval, prev, rendered, fs,
          reader, outcome, parsed,
          stream, diff_position, returned>>

(***************************************************************************)
(* Bounds                                                                  *)
(***************************************************************************)
MaxSourceLen == 5
MaxPatternSize == 3
MaxSharedPatternSize == 2
MaxCounter == 2
NumCallers == 2

(***************************************************************************)
(* Characters                                                              *)
(***************************************************************************)
EXPR_START == "{"
EXPR_END == "}"
PIPE == "|"

\* Option::None of Option<char>
None == "None"

\* The characters pattern sources are drawn from: the three special
\* characters, an ASCII letter and a letter that takes two bytes in UTF-8.
SourceChars == {EXPR_START, EXPR_END, PIPE, "a", "é"}

\* char::len_utf8 on the characters above
LenUtf8(ch) == IF ch = "é" THEN 2 ELSE 1

RECURSIVE SeqsUpTo(_, _)
SeqsUpTo(S, n) ==
    IF n = 0 THEN {<<>>}
    ELSE LET shorter == SeqsUpTo(S, n - 1)
         IN  shorter \cup {Append(s, x) : s \in {t \in shorter : Len(t) = n - 1}, x \in S}

Sources == SeqsUpTo(SourceChars, MaxSourceLen)

RECURSIVE ByteLen(_)
ByteLen(s) == IF s = <<>> THEN 0 ELSE LenUtf8(Head(s)) + ByteLen(Tail(s))

(***************************************************************************)
(* Source: a cursor over the pattern text with one character of lookahead  *)
(* and byte-offset tracking.  `index` is the number of characters          *)
(* consumed so far.                                                        *)
(***************************************************************************)
SourcePeek(chars, index) ==
    IF index < Len(chars) THEN chars[index + 1] ELSE None

SourceIndexAfterConsume(chars, index) ==
    IF index < Len(chars) THEN index + 1 ELSE index

\* Source::position(): the byte offset of the cursor
SourcePosition(chars, index) == ByteLen(SubSeq(chars, 1, index))

(***************************************************************************)
(* Lexer                                                                   *)
(***************************************************************************)
\* Lexer::fetch_character
FetchCharacter(chars, lx) ==
    [lx EXCEPT !.character = SourcePeek(chars, lx.index),
               !.index = SourceIndexAfterConsume(chars, lx.index)]

\* Lexer::new
LexerNew(chars) ==
    FetchCharacter(chars,
        [index |-> 0, position |-> 0, character |-> None, in_expression |-> FALSE])

\* The number of source characters already handed out in tokens: everything
\* the Source has given out except the lookahead held in `character`.
Consumed(lx) == lx.index - (IF lx.character = None THEN 0 ELSE 1)

\* make_token without the update of `self.position`
MakeTokenStalePosition(chars, lx, typ, raw) ==
    IF SourcePosition(chars, lx.index) = 0
    THEN [kind |-> "panic", lexer |-> lx]
    ELSE [kind |-> "token",
          token |-> [typ |-> typ, raw |-> raw, position |-> lx.position],
          lexer |-> lx]

\* Lexer::make_token.  `self.source.position() - 1` is a usize subtraction:
\* at position 0 it cannot be evaluated (panic on overflow).
MakeToken(chars, lx, typ, raw) ==
    LET pos == SourcePosition(chars, lx.index)
    IN  IF pos = 0
        THEN [kind |-> "panic", lexer |-> lx]
        ELSE [kind |-> "token",
              token |-> [typ |-> typ, raw |-> raw, position |-> lx.position],
              lexer |-> [lx EXCEPT !.position = pos - 1]]

\* The outside loop treating a pipe as a special character
RECURSIVE OutsideLoopStopsAtPipe(_, _, _)
OutsideLoopStopsAtPipe(chars, lx, raw) ==
    IF lx.character \in {EXPR_START, EXPR_END}
    THEN IF SourcePeek(chars, lx.index) = lx.character
         THEN OutsideLoopStopsAtPipe(chars,
                                     FetchCharacter(chars, FetchCharacter(chars, lx)),
                                     Append(raw, lx.character))
         ELSE [lexer |-> lx, raw |-> raw]
    ELSE IF lx.character \notin {None, PIPE}
         THEN OutsideLoopStopsAtPipe(chars, FetchCharacter(chars, lx),
                                     Append(raw, lx.character))
         ELSE [lexer |-> lx, raw |-> raw]

\* The outside loop consuming only one character of a doubled brace
RECURSIVE OutsideLoopOneFetch(_, _, _)
OutsideLoopOneFetch(chars, lx, raw) ==
    IF lx.character \in {EXPR_START, EXPR_END}
    THEN IF SourcePeek(chars, lx.index) = lx.character
         THEN OutsideLoopOneFetch(chars, FetchCharacter(chars, lx), Append(raw, lx.character))
         ELSE [lexer |-> lx, raw |-> raw]
    ELSE IF lx.character # None
         THEN OutsideLoopOneFetch(chars, FetchCharacter(chars, lx), Append(raw, lx.character))
         ELSE [lexer |-> lx, raw |-> raw]

\* The loop of next_outside_expression: returns the lexer state and the raw
\* text accumulated when the loop breaks.
RECURSIVE OutsideLoop(_, _, _)
OutsideLoop(chars, lx, raw) ==
    IF lx.character \in {EXPR_START, EXPR_END}
    THEN IF SourcePeek(chars, lx.index) = lx.character
         THEN OutsideLoop(chars,
                          FetchCharacter(chars, FetchCharacter(chars, lx)),
                          Append(raw, lx.character))
         ELSE [lexer |-> lx, raw |-> raw]
    ELSE IF lx.character # None
         THEN OutsideLoop(chars, FetchCharacter(chars, lx), Append(raw, lx.character))
         ELSE [lexer |-> lx, raw |-> raw]

\* next_outside_expression treating a `}` with no open expression as an
\* unexpected character
NextOutsideExpressionResultStrict(chars, lx0) ==
    LET r == OutsideLoop(chars, lx0, <<>>)
        lx == r.lexer
    IN  IF r.raw # <<>>
        THEN MakeToken(chars, lx, "Raw", r.raw)
        ELSE IF lx.character = EXPR_START
             THEN MakeToken(chars,
                            FetchCharacter(chars, [lx EXCEPT !.in_expression = TRUE]),
                            "ExprStart", <<>>)
        ELSE IF lx.character # None
             THEN [kind |-> "panic", lexer |-> lx]
        ELSE [kind |-> "none", lexer |-> lx]

\* Lexer::next_outside_expression
NextOutsideExpressionResult(chars, lx0) ==
    LET r == OutsideLoop(chars, lx0, <<>>)
        lx == r.lexer
    IN  IF r.raw # <<>>
        THEN MakeToken(chars, lx, "Raw", r.raw)
        ELSE IF lx.character = EXPR_START
             THEN MakeToken(chars,
                            FetchCharacter(chars, [lx EXCEPT !.in_expression = TRUE]),
                            "ExprStart", <<>>)
        ELSE IF lx.character = EXPR_END
             THEN MakeToken(chars, FetchCharacter(chars, lx), "ExprEnd", <<>>)
        ELSE IF lx.character # None
             THEN [kind |-> "panic", lexer |-> lx]
        ELSE [kind |-> "none", lexer |-> lx]

\* The inside loop consuming only the pipe of an escape sequence
RECURSIVE InsideLoopOneFetch(_, _, _)
InsideLoopOneFetch(chars, lx, raw) ==
    IF lx.character = PIPE
    THEN IF SourcePeek(chars, lx.index) \in {EXPR_START, EXPR_END, PIPE}
         THEN InsideLoopOneFetch(chars, FetchCharacter(chars, lx),
                                 Append(raw, SourcePeek(chars, lx.index)))
         ELSE [lexer |-> lx, raw |-> raw]
    ELSE IF lx.character \in {EXPR_START, EXPR_END, None}
         THEN [lexer |-> lx, raw |-> raw]
         ELSE InsideLoopOneFetch(chars, FetchCharacter(chars, lx), Append(raw, lx.character))

\* The inside loop keeping the escaping pipe instead of the escaped character
RECURSIVE InsideLoopPushPipe(_, _, _)
InsideLoopPushPipe(chars, lx, raw) ==
    IF lx.character = PIPE
    THEN IF SourcePeek(chars, lx.index) \in {EXPR_START, EXPR_END, PIPE}
         THEN InsideLoopPushPipe(chars,
                                 FetchCharacter(chars, FetchCharacter(chars, lx)),
                                 Append(raw, lx.character))
         ELSE [lexer |-> lx, raw |-> raw]
    ELSE IF lx.character \in {EXPR_START, EXPR_END, None}
         THEN [lexer |-> lx, raw |-> raw]
         ELSE InsideLoopPushPipe(chars, FetchCharacter(chars, lx), Append(raw, lx.character))

\* The inside loop breaking after each character it takes
RECURSIVE InsideLoopOneChar(_, _, _)
InsideLoopOneChar(chars, lx, raw) ==
    IF raw # <<>> THEN [lexer |-> lx, raw |-> raw]
    ELSE IF lx.character = PIPE
    THEN IF SourcePeek(chars, lx.index) \in {EXPR_START, EXPR_END, PIPE}
         THEN InsideLoopOneChar(chars,
                                FetchCharacter(chars, FetchCharacter(chars, lx)),
                                Append(raw, SourcePeek(chars, lx.index)))
         ELSE [lexer |-> lx, raw |-> raw]
    ELSE IF lx.character \in {EXPR_START, EXPR_END, None}
         THEN [lexer |-> lx, raw |-> raw]
         ELSE InsideLoopOneChar(chars, FetchCharacter(chars, lx), Append(raw, lx.character))

\* The loop of next_in_expresion
RECURSIVE InsideLoop(_, _, _)
InsideLoop(chars, lx, raw) ==
    IF lx.character = PIPE
    THEN IF SourcePeek(chars, lx.index) \in {EXPR_START, EXPR_END, PIPE}
         THEN InsideLoop(chars,
                         FetchCharacter(chars, FetchCharacter(chars, lx)),
                         Append(raw, SourcePeek(chars, lx.index)))
         ELSE [lexer |-> lx, raw |-> raw]
    ELSE IF lx.character \in {EXPR_START, EXPR_END, None}
         THEN [lexer |-> lx, raw |-> raw]
         ELSE InsideLoop(chars, FetchCharacter(chars, lx), Append(raw, lx.character))

\* next_in_expresion leaving `in_expression` set when it meets `}`
NextInExpressionResultKeepsMode(chars, lx0) ==
    LET r == InsideLoop(chars, lx0, <<>>)
        lx == r.lexer
    IN  IF r.raw # <<>>
        THEN MakeToken(chars, lx, "Raw", r.raw)
        ELSE IF lx.character = EXPR_START
             THEN MakeToken(chars, FetchCharacter(chars, lx), "ExprStart", <<>>)
        ELSE IF lx.character = EXPR_END
             THEN MakeToken(chars, FetchCharacter(chars, lx), "ExprEnd", <<>>)
        ELSE IF lx.character = PIPE
             THEN MakeToken(chars, FetchCharacter(chars, lx), "Pipe", <<>>)
        ELSE IF lx.character # None
             THEN [kind |-> "panic", lexer |-> lx]
        ELSE [kind |-> "none", lexer |-> lx]

\* next_in_expresion returning a Pipe token without fetching the character
\* after the pipe
NextInExpressionResultPipeNotConsumed(chars, lx0) ==
    LET r == InsideLoop(chars, lx0, <<>>)
        lx == r.lexer
    IN  IF r.raw # <<>>
        THEN MakeToken(chars, lx, "Raw", r.raw)
        ELSE IF lx.character = EXPR_START
             THEN MakeToken(chars, FetchCharacter(chars, lx), "ExprStart", <<>>)
        ELSE IF lx.character = EXPR_END
             THEN MakeToken(chars,
                            FetchCharacter(chars, [lx EXCEPT !.in_expression = FALSE]),
                            "ExprEnd", <<>>)
        ELSE IF lx.character = PIPE
             THEN MakeToken(chars, lx, "Pipe", <<>>)
        ELSE IF lx.character # None
             THEN [kind |-> "panic", lexer |-> lx]
        ELSE [kind |-> "none", lexer |-> lx]

\* Lexer::next_in_expresion
NextInExpressionResult(chars, lx0) ==
    LET r == InsideLoop(chars, lx0, <<>>)
        lx == r.lexer
    IN  IF r.raw # <<>>
        THEN MakeToken(chars, lx, "Raw", r.raw)
        ELSE IF lx.character = EXPR_START
             THEN MakeToken(chars, FetchCharacter(chars, lx), "ExprStart", <<>>)
        ELSE IF lx.character = EXPR_END
             THEN MakeToken(chars,
                            FetchCharacter(chars, [lx EXCEPT !.in_expression = FALSE]),
                            "ExprEnd", <<>>)
        ELSE IF lx.character = PIPE
             THEN MakeToken(chars, FetchCharacter(chars, lx), "Pipe", <<>>)
        ELSE IF lx.character # None
             THEN [kind |-> "panic", lexer |-> lx]
        ELSE [kind |-> "none", lexer |-> lx]

\* The effect of one call of next() whose result is `r`.  Each returned token
\* is recorded with the mode the call started in and with the source
\* characters [first, last) (0-based character indices) the call consumed.
LexerReturn(r) ==
    /\ lexer' = r.lexer
    /\ tokens' = IF r.kind = "token"
                 THEN Append(tokens,
                             [typ |-> r.token.typ,
                              raw |-> r.token.raw,
                              position |-> r.token.position,
                              inside |-> lexer.in_expression,
                              first |-> Consumed(lexer),
                              last |-> Consumed(r.lexer)])
                 ELSE tokens
    /\ lexState' = IF r.kind = "none" THEN "ended"
                   ELSE IF r.kind = "panic" THEN "panicked"
                   ELSE lexState
    /\ UNCHANGED <<source, evalVars, parseVars, ioVars>>

\* Iterator::next for Lexer, the branch taken outside an expression
NextOutsideExpression ==
    /\ lexState # "panicked"
    /\ ~lexer.in_expression
    /\ LexerReturn(NextOutsideExpressionResult(source, lexer))

\* Iterator::next for Lexer, the branch taken inside an expression
NextInExpression ==
    /\ lexState # "panicked"
    /\ lexer.in_expression
    /\ LexerReturn(NextInExpressionResult(source, lexer))

\* Nothing is being parsed
NoOutcome == [op |-> "None"]
NoParsed == [kind |-> "None"]

ParseIdle ==
    /\ reader = [chars |-> <<>>, index |-> 0]
    /\ outcome = NoOutcome
    /\ parsed = NoParsed

\* No input is being read
NoPosition == [item |-> 0, offset |-> 0]

IoIdle ==
    /\ stream = [input |-> <<>>, index |-> 0, delimiter |-> None]
    /\ diff_position = NoPosition
    /\ returned = <<>>

\* No pattern is being evaluated
EvalIdle ==
    /\ pattern = <<>>
    /\ callers = {}
    /\ input = <<>>
    /\ context = <<>>
    /\ given = <<>>
    /\ eval = <<>>
    /\ prev = <<>>
    /\ rendered = <<>>
    /\ fs = {}

LexerInit ==
    /\ source \in Sources
    /\ lexer = LexerNew(source)
    /\ tokens = <<>>
    /\ lexState = "running"
    /\ EvalIdle
    /\ ParseIdle
    /\ IoIdle

LexerNext == NextOutsideExpression \/ NextInExpression

LexerSpec == LexerInit /\ [][LexerNext]_vars

(***************************************************************************)
(* Pattern evaluation: data                                                *)
(***************************************************************************)
\* The filters of the Filter enum that are modelled
FilterKinds == {"CanonicalPath", "ToUppercase", "LocalCounter", "GlobalCounter", "Uuid"}

\* The text of the Constant items of the generated patterns
ConstantText == <<"_">>

\* An item without its source range: a Constant or an Expression with its
\* filter chain.  Its size is the number of AST nodes it holds.
ItemShapes(n) ==
    {[type |-> "Constant", text |-> ConstantText]}
        \cup {[type |-> "Expression", filters |-> f] : f \in SeqsUpTo(FilterKinds, n - 1)}

ShapeSize(it) == IF it.type = "Constant" THEN 1 ELSE 1 + Len(it.filters)

\* The source length of an item: `_`, or `{f|g}` with one character per filter
ShapeWidth(it) ==
    IF it.type = "Constant" THEN Len(it.text)
    ELSE IF it.filters = <<>> THEN 2 ELSE 2 * Len(it.filters) + 1

RECURSIVE ShapesOfSize(_)
ShapesOfSize(n) ==
    IF n = 0 THEN {<<>>}
    ELSE {<<>>} \cup
         UNION {{<<it>> \o p : p \in ShapesOfSize(n - ShapeSize(it))} :
                    it \in {i \in ItemShapes(n) : ShapeSize(i) <= n}}

\* ParsedItem: the item with the source range the parser records for it and
\* for each of its filters (the filter at index j of `{f|g}` starting at
\* offset o is the one character at o + 2j - 1).
ParsedItemAt(it, offset) ==
    IF it.type = "Constant"
    THEN [value |-> it, range |-> <<offset, offset + ShapeWidth(it)>>]
    ELSE [value |-> [type |-> "Expression",
                     filters |-> [j \in 1..Len(it.filters) |->
                                     [value |-> it.filters[j],
                                      range |-> <<offset + 2 * j - 1, offset + 2 * j>>]]],
          range |-> <<offset, offset + ShapeWidth(it)>>]

RECURSIVE ParsedItems(_, _)
ParsedItems(shapes, offset) ==
    IF shapes = <<>> THEN <<>>
    ELSE <<ParsedItemAt(Head(shapes), offset)>>
             \o ParsedItems(Tail(shapes), offset + ShapeWidth(Head(shapes)))

PatternsOfSize(n) == {ParsedItems(p, 0) : p \in ShapesOfSize(n)}

\* The input values and what an eval::Context can hold
Inputs == {<<"a">>, <<"b">>}
Quotes == {None, "'"}
CurrentDir == <<"/", "d">>
FsUniverse == {<<"a">>}

MakeContext(local, global, quotes) ==
    [current_dir |-> CurrentDir,
     local_counter |-> local,
     global_counter |-> global,
     regex_captures |-> None,
     expression_quotes |-> quotes]

(***************************************************************************)
(* Filter evaluation                                                       *)
(***************************************************************************)
FilterOk(value) == [ok |-> TRUE, value |-> value]
FilterErr(kind) == [ok |-> FALSE, kind |-> kind]

\* string::to_uppercase on the characters used here
UpperChar(ch) ==
    CASE ch = "a" -> "A" [] ch = "b" -> "B" [] ch = "d" -> "D"
      [] ch = "u" -> "U" [] ch = "x" -> "X" [] ch = "y" -> "Y" [] OTHER -> ch

StringToUppercase(value) == [i \in 1..Len(value) |-> UpperChar(value[i])]

\* to_string of an unsigned integer: its decimal digits
Digits == <<"0", "1", "2", "3", "4", "5", "6", "7", "8", "9">>

RECURSIVE UsizeToString(_)
UsizeToString(n) ==
    IF n < 10 THEN <<Digits[n + 1]>>
    ELSE UsizeToString(n \div 10) \o <<Digits[(n % 10) + 1]>>

\* generate::counter: the decimal rendering of the counter
GenerateCounter(n) == UsizeToString(n)

\* generate::uuid: a fresh random identifier, whatever the value
GenerateUuid == {<<"u", "x">>, <<"u", "y">>}

\* path::get_absolute: the value joined to the current directory if relative
PathGetAbsolute(value, current_dir) ==
    IF value # <<>> /\ value[1] = "/" THEN value ELSE current_dir \o <<"/">> \o value

\* path::get_canonical: the absolute path of a path that exists on disk,
\* CanonicalizationFailed if it does not exist
PathGetCanonical(value, current_dir, fsys) ==
    IF PathGetAbsolute(value, current_dir)
           \in {PathGetAbsolute(p, current_dir) : p \in fsys}
    THEN FilterOk(PathGetAbsolute(value, current_dir))
    ELSE FilterErr("CanonicalizationFailed")

\* Filter::eval with a local counter that renders a fresh value on every call
FilterEvalFreshCounter(filter, value, ctx, fsys) ==
    CASE filter = "AbsolutePath" -> {FilterOk(PathGetAbsolute(value, ctx.current_dir))}
      [] filter = "CanonicalPath" -> {PathGetCanonical(value, ctx.current_dir, fsys)}
      [] filter = "ToUppercase" -> {FilterOk(StringToUppercase(value))}
      [] filter = "LocalCounter" -> {FilterOk(u) : u \in GenerateUuid}
      [] filter = "GlobalCounter" -> {FilterOk(GenerateCounter(ctx.global_counter))}
      [] filter = "Uuid" -> {FilterOk(u) : u \in GenerateUuid}

\* Filter::eval: the results the call can return, given what is on disk
FilterEval(filter, value, ctx, fsys) ==
    CASE filter = "AbsolutePath" -> {FilterOk(PathGetAbsolute(value, ctx.current_dir))}
      [] filter = "CanonicalPath" -> {PathGetCanonical(value, ctx.current_dir, fsys)}
      [] filter = "ToUppercase" -> {FilterOk(StringToUppercase(value))}
      [] filter = "LocalCounter" -> {FilterOk(GenerateCounter(ctx.local_counter))}
      [] filter = "GlobalCounter" -> {FilterOk(GenerateCounter(ctx.global_counter))}
      [] filter = "Uuid" -> {FilterOk(u) : u \in GenerateUuid}

\* Filter::eval advancing the local counter it has rendered
ContextAfterFilterCounting(filter, ctx) ==
    IF filter = "LocalCounter"
    THEN [ctx EXCEPT !.local_counter = @ + 1]
    ELSE ctx

\* Filter::eval takes the context by shared reference: it comes back as it was
ContextAfterFilter(filter, ctx) == ctx

\* The variables of the Variable enum that read the counters
VariableKinds == {"LocalCounter", "GlobalCounter"}

\* Variable::eval on the counter variables
VariableEvalResult(variable, ctx) ==
    CASE variable = "LocalCounter" -> FilterOk(UsizeToString(ctx.local_counter))
      [] variable = "GlobalCounter" -> FilterOk(UsizeToString(ctx.global_counter))

\* Variable::eval takes the context by shared reference: it comes back as it was
ContextAfterVariable(variable, ctx) == ctx

(***************************************************************************)
(* Pattern::eval, one step at a time                                       *)
(***************************************************************************)
NoResult == [kind |-> "None"]
NoPrev == [kind |-> "None"]
NoRendered == [kind |-> "None"]

EvalLocalsIdle ==
    [pc |-> "idle", item |-> 0, filter |-> 0, value |-> <<>>, output |-> <<>>,
     result |-> NoResult, trace |-> <<>>]

\* Every caller reading the context of the first caller
CallerContextShared(c) == context[1]

\* The context caller c's eval reads
CallerContext(c) == context[c]

\* output.push_str(value) for a Constant
PushConstant(output, text) == output \o text

\* The value an Expression starts from: input.to_string()
ExpressionStart(inp) == inp

\* Every filter of a chain evaluated on the input
FilterArgumentInput(inp, value) == inp

\* The value handed to filter.value.eval(value, context)
FilterArgument(inp, value) == value

\* The value kept after Ok(result)
ValueAfterFilter(value, result) == result

\* The pushes that end an Expression without the closing quote
PushExpressionUnclosed(output, value, quotes) ==
    IF quotes # None
    THEN output \o <<quotes>> \o value
    ELSE output \o value

\* The pushes that end an Expression, with or without quotes
PushExpression(output, value, quotes) ==
    IF quotes # None
    THEN output \o <<quotes>> \o value \o <<quotes>>
    ELSE output \o value

\* The eval::Error carrying the value the chain has reached
EvalErrorTransformed(kind, inp, value, filter) ==
    [kind |-> "Err",
     error |-> [kind |-> kind, value |-> value, cause |-> filter.value, range |-> filter.range]]

\* The eval::Error returned when a filter fails
EvalError(kind, inp, value, filter) ==
    [kind |-> "Err",
     error |-> [kind |-> kind, value |-> inp, cause |-> filter.value, range |-> filter.range]]

EvalOk(output) == [kind |-> "Ok", output |-> output]

\* eval is called: `let mut output = String::new()`
EvalBegin(c) ==
    /\ eval[c].pc = "idle"
    /\ eval' = [eval EXCEPT ![c] =
                   [EvalLocalsIdle EXCEPT !.pc = "item", !.item = 1]]
    /\ rendered' = [rendered EXCEPT ![c] = NoRendered]
    /\ UNCHANGED <<pattern, callers, input, context, given, prev, fs, lexVars, parseVars, ioVars>>

\* `for item in &self.items`: a Constant is pushed, an Expression starts its
\* chain from the input, and after the last item Ok(output) is returned
EvalItem(c) ==
    /\ eval[c].pc = "item"
    /\ LET e == eval[c] IN
       IF e.item > Len(pattern)
       THEN eval' = [eval EXCEPT ![c] = [e EXCEPT !.pc = "done", !.result = EvalOk(e.output)]]
       ELSE LET item == pattern[e.item].value IN
            IF item.type = "Constant"
            THEN eval' = [eval EXCEPT ![c] =
                             [e EXCEPT !.output = PushConstant(e.output, item.text),
                                       !.item = e.item + 1]]
            ELSE eval' = [eval EXCEPT ![c] =
                             [e EXCEPT !.pc = "filter",
                                       !.filter = 1,
                                       !.value = ExpressionStart(input[c])]]
    /\ UNCHANGED <<pattern, callers, input, context, given, prev, rendered, fs, lexVars, parseVars, ioVars>>

\* `for filter in filters.iter()`: the next filter is evaluated on the value;
\* Ok replaces the value, Err returns at once; after the last filter the
\* value is pushed to the output
EvalFilter(c) ==
    /\ eval[c].pc = "filter"
    /\ LET e == eval[c]
           filters == pattern[e.item].value.filters
       IN  IF e.filter > Len(filters)
           THEN /\ eval' = [eval EXCEPT ![c] =
                               [e EXCEPT !.pc = "item",
                                         !.item = e.item + 1,
                                         !.output = PushExpression(e.output, e.value,
                                                        CallerContext(c).expression_quotes)]]
                /\ UNCHANGED context
           ELSE LET filter == filters[e.filter]
                    arg == FilterArgument(input[c], e.value)
                IN  \E r \in FilterEval(filter.value, arg, CallerContext(c), fs) :
                       /\ eval' = [eval EXCEPT ![c] =
                              [e EXCEPT
                                 !.trace = Append(e.trace,
                                              [item |-> e.item, filter |-> e.filter,
                                               arg |-> arg, result |-> r, fs |-> fs]),
                                 !.value = IF r.ok THEN ValueAfterFilter(e.value, r.value)
                                           ELSE e.value,
                                 !.filter = IF r.ok THEN e.filter + 1 ELSE e.filter,
                                 !.pc = IF r.ok THEN "filter" ELSE "done",
                                 !.result = IF r.ok THEN e.result
                                            ELSE EvalError(r.kind, input[c], e.value, filter)]]
                       /\ context' = [context EXCEPT ![c] =
                                         ContextAfterFilter(filter.value, context[c])]
    /\ UNCHANGED <<pattern, callers, input, given, prev, rendered, fs, lexVars, parseVars, ioVars>>

\* The states of the disk the CanonicalPath calls of a trace have looked at
Lookups(trace) ==
    {trace[k].fs : k \in {i \in 1..Len(trace) :
        pattern[trace[i].item].value.filters[trace[i].filter].value = "CanonicalPath"}}

\* The caller takes the result of eval
EvalReturn(c) ==
    /\ eval[c].pc = "done"
    /\ prev' = [prev EXCEPT ![c] =
                   [kind |-> "Some",
                    context |-> context[c],
                    result |-> eval[c].result,
                    lookups |-> Lookups(eval[c].trace)]]
    /\ eval' = [eval EXCEPT ![c] = EvalLocalsIdle]
    /\ UNCHANGED <<pattern, callers, input, context, given, rendered, fs, lexVars, parseVars, ioVars>>

\* Between two evaluations the caller advances its counters
CallerAdvance(c) ==
    /\ eval[c].pc = "idle"
    /\ context[c].local_counter < MaxCounter
    /\ context' = [context EXCEPT ![c].local_counter = @ + 1,
                                  ![c].global_counter = @ + 1]
    /\ given' = [given EXCEPT ![c] = context'[c]]
    /\ rendered' = [rendered EXCEPT ![c] = NoRendered]
    /\ UNCHANGED <<pattern, callers, input, eval, prev, fs, lexVars, parseVars, ioVars>>

\* Between two evaluations of the pattern the caller evaluates a counter
\* variable on its context
VariableEval(c) ==
    /\ eval[c].pc = "idle"
    /\ \E variable \in VariableKinds :
          /\ rendered' = [rendered EXCEPT ![c] =
                              [kind |-> "Some", variable |-> variable,
                               result |-> VariableEvalResult(variable, context[c])]]
          /\ context' = [context EXCEPT ![c] = ContextAfterVariable(variable, context[c])]
    /\ UNCHANGED <<pattern, callers, input, given, eval, prev, fs, lexVars, parseVars, ioVars>>

\* A file is created or removed by someone else
FsChange ==
    /\ \E other \in SUBSET FsUniverse : other # fs /\ fs' = other
    /\ UNCHANGED <<pattern, callers, input, context, given, eval, prev, rendered, lexVars, parseVars, ioVars>>

\* No source is being lexed
LexerIdle ==
    /\ source = <<>>
    /\ lexer = LexerNew(<<>>)
    /\ tokens = <<>>
    /\ lexState = "running"

EvalInit(cs, patterns, inputChoices, quoteChoices) ==
    /\ callers = cs
    /\ pattern \in patterns
    /\ input \in inputChoices
    /\ \E q \in quoteChoices :
          context = [c \in cs |-> MakeContext(c, c + 1, q[c])]
    /\ given = context
    /\ eval = [c \in cs |-> EvalLocalsIdle]
    /\ prev = [c \in cs |-> NoPrev]
    /\ rendered = [c \in cs |-> NoRendered]
    /\ fs \in SUBSET FsUniverse
    /\ LexerIdle
    /\ ParseIdle
    /\ IoIdle

\* One caller evaluates the pattern again and again
Init == EvalInit({1}, PatternsOfSize(MaxPatternSize), [{1} -> Inputs], [{1} -> Quotes])

Next ==
    \/ \E c \in callers : EvalBegin(c)
    \/ \E c \in callers : EvalItem(c)
    \/ \E c \in callers : EvalFilter(c)
    \/ \E c \in callers : EvalReturn(c)
    \/ \E c \in callers : CallerAdvance(c)
    \/ \E c \in callers : VariableEval(c)
    \/ FsChange

Spec == Init /\ [][Next]_vars

\* Several callers evaluate one shared pattern once each, their steps
\* interleaved; each has its own input and its own context
SharedInit ==
    EvalInit(1..NumCallers, PatternsOfSize(MaxSharedPatternSize),
             {[c \in 1..NumCallers |-> IF c % 2 = 1 THEN <<"a">> ELSE <<"b">>]},
             {[c \in 1..NumCallers |-> IF c = 1 THEN None ELSE "'"]})

SharedNext ==
    \/ \E c \in callers : EvalBegin(c)
    \/ \E c \in callers : EvalItem(c)
    \/ \E c \in callers : EvalFilter(c)
    \/ FsChange

SharedSpec == SharedInit /\ [][SharedNext]_vars

(***************************************************************************)
(* Reader: a cursor over the characters of a segment, with the byte        *)
(* offset of the cursor and of the end                                     *)
(***************************************************************************)
ReaderFrom(chars) == [chars |-> chars, index |-> 0]

\* Reader::peek
ReaderPeek(rd) == IF rd.index < Len(rd.chars) THEN rd.chars[rd.index + 1] ELSE None

\* Reader::read: the character read, None at the end, and the reader after it
ReaderRead(rd) ==
    [char |-> ReaderPeek(rd),
     reader |-> IF rd.index < Len(rd.chars) THEN [rd EXCEPT !.index = @ + 1] ELSE rd]

\* Reader::read_to_end
ReaderReadToEnd(rd) ==
    [chars |-> SubSeq(rd.chars, rd.index + 1, Len(rd.chars)),
     reader |-> [rd EXCEPT !.index = Len(rd.chars)]]

\* Reader::position and Reader::end
ReaderPosition(rd) == ByteLen(SubSeq(rd.chars, 1, rd.index))

ReaderEnd(rd) == ByteLen(rd.chars)

(***************************************************************************)
(* Parsing a filter or a variable from a Reader.  A parser returns its     *)
(* parse::Result together with the reader as it leaves it.                 *)
(***************************************************************************)
ParseOk(value, rd) == [result |-> [ok |-> TRUE, value |-> value], reader |-> rd]

ParseErr(kind, range, rd) ==
    [result |-> [ok |-> FALSE, error |-> [kind |-> kind, range |-> range]], reader |-> rd]

DecimalDigits == {"0", "1", "2", "3", "4", "5", "6", "7", "8", "9"}

DigitValue(ch) == CHOOSE d \in 0..9 : Digits[d + 1] = ch

\* parse_usize: the number written by the leading decimal digits, all of
\* which are read
RECURSIVE ReadDigits(_, _)
ReadDigits(rd, number) ==
    IF ReaderPeek(rd) \in DecimalDigits
    THEN ReadDigits(ReaderRead(rd).reader, 10 * number + DigitValue(ReaderPeek(rd)))
    ELSE ParseOk(number, rd)

ParseUsize(rd) ==
    IF ReaderPeek(rd) \in DecimalDigits
    THEN ReadDigits(rd, 0)
    ELSE ParseErr([name |-> "ExpectedNumber"],
                  <<ReaderPosition(rd), ReaderPosition(rd)>>, rd)

\* The Range enum
RangeFrom(start) == [type |-> "From", start |-> start]
RangeFromTo(start, end) == [type |-> "FromTo", start |-> start, end |-> end]
RangeTo(end) == [type |-> "To", end |-> end]

\* Range::parse: `N`, `N-M`, `N-` or `-M` with 1-based N and M
RangeParse(rd) ==
    LET position == ReaderPosition(rd)
    IN  IF ReaderPeek(rd) \in DecimalDigits
        THEN LET first == ParseUsize(rd)
                 start == first.result.value
                 rd1 == first.reader
             IN  IF start = 0
                 THEN ParseErr([name |-> "RangeInvalid"],
                               <<position, ReaderPosition(rd1)>>, rd1)
                 ELSE IF ReaderPeek(rd1) = "-"
                 THEN LET rd2 == ReaderRead(rd1).reader
                      IN  IF ReaderPeek(rd2) \in DecimalDigits
                          THEN LET second == ParseUsize(rd2)
                                   end == second.result.value
                               IN  IF end < start
                                   THEN ParseErr([name |-> "RangeInvalid"],
                                                 <<position, ReaderPosition(second.reader)>>,
                                                 second.reader)
                                   ELSE ParseOk(RangeFromTo(start - 1, end), second.reader)
                          ELSE ParseOk(RangeFrom(start - 1), rd2)
                 ELSE ParseOk(RangeFromTo(start - 1, start), rd1)
        ELSE IF ReaderPeek(rd) = "-"
        THEN LET rd1 == ReaderRead(rd).reader
             IN  IF ReaderPeek(rd1) \in DecimalDigits
                 THEN LET second == ParseUsize(rd1)
                      IN  IF second.result.value = 0
                          THEN ParseErr([name |-> "RangeInvalid"],
                                        <<position, ReaderPosition(second.reader)>>,
                                        second.reader)
                          ELSE ParseOk(RangeTo(second.result.value), second.reader)
                 ELSE ParseErr([name |-> "ExpectedRange"],
                               <<ReaderPosition(rd1), ReaderPosition(rd1)>>, rd1)
        ELSE ParseErr([name |-> "ExpectedRange"], <<position, position>>, rd)

\* Substitution::parse_string and Substitution::parse_regex: only a missing
\* argument is told apart; the text of a present one is kept as it is
SubstitutionParse(rd) ==
    IF ReaderPeek(rd) = None
    THEN ParseErr([name |-> "ExpectedSubstitution"],
                  <<ReaderPosition(rd), ReaderPosition(rd)>>, rd)
    ELSE ParseOk(ReaderReadToEnd(rd).chars, ReaderReadToEnd(rd).reader)

\* RegexHolder::parse: only a missing argument is told apart
RegexHolderParse(rd) ==
    IF ReaderPeek(rd) = None
    THEN ParseErr([name |-> "ExpectedRegex"],
                  <<ReaderPosition(rd), ReaderPosition(rd)>>, rd)
    ELSE ParseOk(ReaderReadToEnd(rd).chars, ReaderReadToEnd(rd).reader)

\* Char::join(reader.read_to_end())
ReadToEndParse(rd) == ParseOk(ReaderReadToEnd(rd).chars, ReaderReadToEnd(rd).reader)

\* The one-character codes of the filters without an argument
FilterCodes ==
    {"a", "A", "d", "f", "b", "e", "E", "t", "l", "L", "i", "I", "c", "C", "u"}

FilterOfCode(ch) ==
    CASE ch = "a" -> "AbsolutePath"
      [] ch = "A" -> "CanonicalPath"
      [] ch = "d" -> "ParentPath"
      [] ch = "f" -> "FileName"
      [] ch = "b" -> "BaseName"
      [] ch = "e" -> "Extension"
      [] ch = "E" -> "ExtensionWithDot"
      [] ch = "t" -> "Trim"
      [] ch = "l" -> "ToLowercase"
      [] ch = "L" -> "ToUppercase"
      [] ch = "i" -> "ToAscii"
      [] ch = "I" -> "RemoveNonAscii"
      [] ch = "c" -> "LocalCounter"
      [] ch = "C" -> "GlobalCounter"
      [] ch = "u" -> "Uuid"

\* The codes of the filters with an argument, and the variant of each
ArgumentFilterCodes == {"n", "N", "r", "R", "?", "<", ">", "m", "s", "S"}

\* The substring filters always read the range with a code that maps every
\* range to the forward filter
SubstringFilterForwardOnly(ch, range) == [kind |-> "Substring", range |-> range]

\* 'n' => Substring(range), 'N' => SubstringBackward(range)
SubstringFilter(ch, range) ==
    [kind |-> IF ch = "n" THEN "Substring" ELSE "SubstringBackward", range |-> range]

ArgumentFilter(ch, argument) ==
    CASE ch \in {"n", "N"} -> SubstringFilter(ch, argument)
      [] ch = "r" -> [kind |-> "ReplaceFirst", substitution |-> argument]
      [] ch = "R" -> [kind |-> "ReplaceAll", substitution |-> argument]
      [] ch = "?" -> [kind |-> "ReplaceEmpty", text |-> argument]
      [] ch = "<" -> [kind |-> "LeftPad", text |-> argument]
      [] ch = ">" -> [kind |-> "RightPad", text |-> argument]
      [] ch = "m" -> [kind |-> "RegexMatch", regex |-> argument]
      [] ch = "s" -> [kind |-> "RegexReplaceFirst", substitution |-> argument]
      [] ch = "S" -> [kind |-> "RegexReplaceAll", substitution |-> argument]

\* The parser that reads the argument of a code
ArgumentParse(ch, rd) ==
    CASE ch \in {"n", "N"} -> RangeParse(rd)
      [] ch \in {"r", "R", "s", "S"} -> SubstitutionParse(rd)
      [] ch \in {"?", "<", ">"} -> ReadToEndParse(rd)
      [] ch = "m" -> RegexHolderParse(rd)

\* The error of an unknown code, with a range up to the end of the reader
UnknownFilterErrorToEnd(ch, position, after) ==
    ParseErr([name |-> "UnknownFilter", char |-> ch], <<position, ReaderEnd(after)>>, after)

\* `_ => Err(parse::Error { kind: UnknownFilter(char), range: position..reader.position() })`
UnknownFilterError(ch, position, after) ==
    ParseErr([name |-> "UnknownFilter", char |-> ch],
             <<position, ReaderPosition(after)>>, after)

\* The error of an empty reader, with a range of one character
ExpectedFilterErrorOneChar(position, rd) ==
    ParseErr([name |-> "ExpectedFilter"], <<position, position + 1>>, rd)

\* `Err(parse::Error { kind: ExpectedFilter, range: position..reader.end() })`
ExpectedFilterError(position, rd) ==
    ParseErr([name |-> "ExpectedFilter"], <<position, ReaderEnd(rd)>>, rd)

\* Filter::parse
FilterParse(rd) ==
    LET position == ReaderPosition(rd)
        ch == ReaderRead(rd).char
        after == ReaderRead(rd).reader
    IN  IF ch # None
        THEN IF ch \in FilterCodes
             THEN ParseOk(FilterOfCode(ch), after)
             ELSE IF ch \in ArgumentFilterCodes
             THEN LET argument == ArgumentParse(ch, after)
                  IN  IF argument.result.ok
                      THEN ParseOk(ArgumentFilter(ch, argument.result.value), argument.reader)
                      ELSE argument
             ELSE UnknownFilterError(ch, position, after)
        ELSE ExpectedFilterError(position, rd)

\* The codes of the variables without an argument (src/pattern/variable.rs)
VariableCodes == {"f", "b", "e", "E", "d", "D", "p", "c", "C", "u"}

VariableOfCode(ch) ==
    CASE ch = "f" -> "Filename"
      [] ch = "b" -> "Basename"
      [] ch = "e" -> "Extension"
      [] ch = "E" -> "ExtensionWithDot"
      [] ch = "d" -> "FullDirname"
      [] ch = "D" -> "ParentDirname"
      [] ch = "p" -> "FullPath"
      [] ch = "c" -> "LocalCounter"
      [] ch = "C" -> "GlobalCounter"
      [] ch = "u" -> "Uuid"

\* Variable::parse(reader) of src/pattern/variable.rs
VariableParse(rd) ==
    LET position == ReaderPosition(rd)
    IN  IF ReaderPeek(rd) \in DecimalDigits
        THEN LET number == ParseUsize(rd)
             IN  IF ~number.result.ok THEN number
                 ELSE IF number.result.value > 0
                 THEN ParseOk([kind |-> "RegexCapture", index |-> number.result.value],
                              number.reader)
                 ELSE ParseErr([name |-> "RegexCaptureZero"],
                               <<position, ReaderPosition(number.reader)>>, number.reader)
        ELSE LET ch == ReaderRead(rd).char
                 after == ReaderRead(rd).reader
             IN  IF ch # None
                 THEN IF ch \in VariableCodes
                      THEN ParseOk(VariableOfCode(ch), after)
                      ELSE ParseErr([name |-> "UnknownVariable", char |-> ch],
                                    <<position, ReaderPosition(after)>>, after)
                 ELSE ParseErr([name |-> "ExpectedVariable"],
                               <<position, ReaderEnd(rd)>>, rd)

\* The codes of src/pattern/variable/parse.rs
StringVariableCodes == {"f", "b", "e", "E", "c", "C", "u"}

\* Variable::parse(string) of src/pattern/variable/parse.rs
VariableParseString(chars) ==
    LET rd == ReaderFrom(chars)
        position == ReaderPosition(rd)
        variable ==
            IF ReaderPeek(rd) \in DecimalDigits
            THEN LET number == ParseUsize(rd)
                 IN  IF ~number.result.ok THEN number
                     ELSE ParseOk([kind |-> "CaptureGroup", index |-> number.result.value],
                                  number.reader)
            ELSE IF ReaderPeek(rd) # None
            THEN LET ch == ReaderRead(rd).char
                     after == ReaderRead(rd).reader
                 IN  IF ch \in StringVariableCodes
                     THEN ParseOk(VariableOfCode(ch), after)
                     ELSE ParseErr([name |-> "UnknownVariable"],
                                   <<position, ReaderEnd(after)>>, after)
            ELSE ParseErr([name |-> "ExpectedVariable"], <<position, ReaderEnd(rd)>>, rd)
    IN  IF ~variable.result.ok THEN variable
        ELSE IF ReaderPeek(variable.reader) = None
        THEN variable
        ELSE ParseErr([name |-> "UnexpectedCharacters"],
                      <<ReaderPosition(variable.reader), ReaderEnd(variable.reader)>>,
                      variable.reader)

(***************************************************************************)
(* The substring filters                                                   *)
(***************************************************************************)
Min(a, b) == IF a < b THEN a ELSE b

\* substr::get_forward: the range counted in characters from the start
SubstrGetForward(value, range) ==
    CASE range.type = "From" -> SubSeq(value, range.start + 1, Len(value))
      [] range.type = "FromTo" -> SubSeq(value, range.start + 1, Min(range.end, Len(value)))
      [] range.type = "To" -> SubSeq(value, 1, Min(range.end, Len(value)))

\* substr::get_backward: the range counted in characters from the end
SubstrGetBackward(value, range) ==
    CASE range.type = "From" -> SubSeq(value, 1, Len(value) - range.start)
      [] range.type = "FromTo" ->
             SubSeq(value, Len(value) - Min(range.end, Len(value)) + 1,
                    Len(value) - range.start)
      [] range.type = "To" ->
             SubSeq(value, Len(value) - Min(range.end, Len(value)) + 1, Len(value))

\* Filter::eval with the arms of the two substring filters exchanged
FilterEvalSubstringSwapped(filter, value, ctx, fsys) ==
    CASE filter.kind = "Substring" -> {FilterOk(SubstrGetBackward(value, filter.range))}
      [] filter.kind = "SubstringBackward" ->
             {FilterOk(SubstrGetForward(value, filter.range))}

\* Filter::eval, the arms of the substring filters
FilterEvalSubstring(filter, value, ctx, fsys) ==
    CASE filter.kind = "Substring" -> {FilterOk(SubstrGetForward(value, filter.range))}
      [] filter.kind = "SubstringBackward" ->
             {FilterOk(SubstrGetBackward(value, filter.range))}

(***************************************************************************)
(* Parsing and evaluating one filter or variable                           *)
(***************************************************************************)
MaxArgumentLen == 3

\* The characters that follow a code: a dash, digits and another character
ArgumentChars == {"-", "0", "1", "2", "3", "_"}

\* The first character: every code of a filter or of a variable and some
\* characters that are no code
FirstChars ==
    FilterCodes \cup ArgumentFilterCodes \cup VariableCodes
        \cup {"_", "-", "é", "0", "1", "2", "3"}

ReaderStrings ==
    {<<>>} \cup {<<c>> \o rest : c \in FirstChars,
                                rest \in SeqsUpTo(ArgumentChars, MaxArgumentLen)}

\* The values the substring filters are evaluated on
SubstringValues == {<<>>, <<"a">>, <<"a", "b", "c">>, <<"a", "b", "c", "d", "e">>}

FilterInit ==
    /\ reader \in {ReaderFrom(s) : s \in ReaderStrings}
    /\ outcome = NoOutcome
    /\ parsed = NoParsed
    /\ LexerIdle
    /\ EvalIdle
    /\ IoIdle

\* The caller has read one character before it calls a parser
ReaderReadAhead ==
    /\ outcome = NoOutcome
    /\ reader.index = 0
    /\ reader.chars # <<>>
    /\ reader' = ReaderRead(reader).reader
    /\ UNCHANGED <<outcome, parsed, lexVars, evalVars, ioVars>>

\* A call of a parser that returns `r`
ParseCall(op, r) ==
    /\ outcome = NoOutcome
    /\ outcome' = [op |-> op, before |-> reader, result |-> r.result, after |-> r.reader]
    /\ reader' = r.reader
    /\ UNCHANGED <<parsed, lexVars, evalVars, ioVars>>

FilterParseCall == ParseCall("Filter::parse", FilterParse(reader))

VariableParseCall == ParseCall("Variable::parse", VariableParse(reader))

VariableParseStringCall ==
    /\ reader.index = 0
    /\ ParseCall("Variable::parse(string)", VariableParseString(reader.chars))

\* A substring filter that has been parsed is evaluated on a value
SubstringEvalCall ==
    /\ outcome.op = "Filter::parse"
    /\ outcome.result.ok
    /\ ReaderPeek(outcome.before) \in {"n", "N"}
    /\ \E value \in SubstringValues :
          \E r \in FilterEvalSubstring(outcome.result.value, value,
                                       MakeContext(1, 1, None), {}) :
             outcome' = [op |-> "Filter::eval", filter |-> outcome.result.value,
                         value |-> value, result |-> r]
    /\ UNCHANGED <<reader, parsed, lexVars, evalVars, ioVars>>

FilterNext ==
    \/ ReaderReadAhead
    \/ FilterParseCall
    \/ VariableParseCall
    \/ VariableParseStringCall
    \/ SubstringEvalCall

FilterSpec == FilterInit /\ [][FilterNext]_vars

(***************************************************************************)
(* Parser: one pass over the tokens of the Lexer.  A Raw token gives a     *)
(* Constant, an ExprStart token opens a chain of filters separated by Pipe *)
(* tokens and closed by ExprEnd.  The range of a node starts at the        *)
(* position of its first token and ends where the token after its last one *)
(* starts, or at the end of the source.                                    *)
(***************************************************************************)
MaxParseSourceLen == 5

ParseSources == SeqsUpTo(SourceChars, MaxParseSourceLen)

TokenEnd(chars, toks, k) ==
    IF k < Len(toks) THEN toks[k + 1].position ELSE ByteLen(chars)

TokenRange(chars, toks, k) == <<toks[k].position, TokenEnd(chars, toks, k)>>

ParsedErr(name, range) ==
    [kind |-> "Err", error |-> [kind |-> [name |-> name], range |-> range]]

\* The filters of an expression, from token k on.  `expectFilter` tells
\* whether a filter has to come next (after ExprStart or Pipe); `afterPipe`
\* whether the last token was a Pipe.
RECURSIVE ParserParseExpression(_, _, _, _, _, _, _)
ParserParseExpression(chars, toks, start, k, filters, expectFilter, afterPipe) ==
    IF k > Len(toks)
    THEN ParsedErr("UnmatchedExprStart", TokenRange(chars, toks, start))
    ELSE LET token == toks[k]
             here == token.position
         IN  CASE token.typ = "ExprStart" ->
                      ParsedErr("ExprStartInsideExpr", TokenRange(chars, toks, k))
               [] token.typ = "ExprEnd" ->
                      IF afterPipe
                      THEN ParsedErr("ExpectedFilter", <<here, here>>)
                      ELSE [kind |-> "Ok",
                            item |-> [value |-> [type |-> "Expression", filters |-> filters],
                                      range |-> <<toks[start].position,
                                                  TokenEnd(chars, toks, k)>>],
                            next |-> k + 1]
               [] token.typ = "Pipe" ->
                      IF expectFilter
                      THEN ParsedErr("ExpectedFilter", <<here, here>>)
                      ELSE ParserParseExpression(chars, toks, start, k + 1, filters,
                                                 TRUE, TRUE)
               [] token.typ = "Raw" ->
                      LET filter == FilterParse(ReaderFrom(token.raw))
                      IN  IF ~filter.result.ok
                          THEN [kind |-> "Err",
                                error |-> [kind |-> filter.result.error.kind,
                                           range |-> <<here + filter.result.error.range[1],
                                                       here + filter.result.error.range[2]>>]]
                          ELSE IF ReaderPeek(filter.reader) # None
                          THEN ParsedErr("ExpectedPipeOrExprEnd",
                                         <<here + ReaderPosition(filter.reader),
                                           TokenEnd(chars, toks, k)>>)
                          ELSE ParserParseExpression(chars, toks, start, k + 1,
                                   Append(filters, [value |-> filter.result.value,
                                                    range |-> TokenRange(chars, toks, k)]),
                                   FALSE, FALSE)

\* Parser::parse_items, from token k on
RECURSIVE ParserParseItems(_, _, _, _)
ParserParseItems(chars, toks, k, items) ==
    IF k > Len(toks) THEN [kind |-> "Ok", items |-> items]
    ELSE LET token == toks[k]
         IN  CASE token.typ = "Raw" ->
                      ParserParseItems(chars, toks, k + 1,
                          Append(items, [value |-> [type |-> "Constant", text |-> token.raw],
                                         range |-> TokenRange(chars, toks, k)]))
               [] token.typ = "ExprStart" ->
                      LET expression ==
                              ParserParseExpression(chars, toks, k, k + 1, <<>>, TRUE, FALSE)
                      IN  IF expression.kind = "Ok"
                          THEN ParserParseItems(chars, toks, expression.next,
                                                Append(items, expression.item))
                          ELSE expression
               [] token.typ = "ExprEnd" ->
                      ParsedErr("UnmatchedExprEnd", TokenRange(chars, toks, k))
               [] token.typ = "Pipe" ->
                      ParsedErr("PipeOutsideExpr", TokenRange(chars, toks, k))

\* Pattern::parse, once the Lexer has given all its tokens
PatternParse ==
    /\ lexState = "ended"
    /\ parsed = NoParsed
    /\ parsed' = ParserParseItems(source, tokens, 1, <<>>)
    /\ pattern' = IF parsed'.kind = "Ok" THEN parsed'.items ELSE pattern
    /\ UNCHANGED <<callers, input, context, given, eval, prev, rendered, fs,
                   reader, outcome, lexVars, ioVars>>

\* The parsed pattern is evaluated
ParsedEvalBegin ==
    /\ parsed.kind = "Ok"
    /\ \E c \in callers : EvalBegin(c)

ParseInit ==
    /\ source \in ParseSources
    /\ lexer = LexerNew(source)
    /\ tokens = <<>>
    /\ lexState = "running"
    /\ pattern = <<>>
    /\ callers = {1}
    /\ input \in [{1} -> Inputs]
    /\ \E q \in Quotes : context = [c \in {1} |-> MakeContext(1, 1, q)]
    /\ given = context
    /\ eval = [c \in {1} |-> EvalLocalsIdle]
    /\ prev = [c \in {1} |-> NoPrev]
    /\ rendered = [c \in {1} |-> NoRendered]
    /\ fs = {}
    /\ ParseIdle
    /\ IoIdle

ParseNext ==
    \/ NextOutsideExpression
    \/ NextInExpression
    \/ PatternParse
    \/ ParsedEvalBegin
    \/ \E c \in callers : EvalItem(c)
    \/ \E c \in callers : EvalFilter(c)

ParseSpec == ParseInit /\ [][ParseNext]_vars

(***************************************************************************)
(* Variable::eval on the path and capture variables                        *)
(* (src/pattern/variable.rs).  A path is the sequence of its components,   *)
(* an Option is a record.                                                  *)
(***************************************************************************)
MaxPathLen == 3
MaxGroups == 2

Some(v) == [some |-> TRUE, value |-> v]
Nothing == [some |-> FALSE]

\* The names a component of a path may have: `r`, `f.e`, `.f`, `f.`, `..`
ComponentNames ==
    {<<"r">>, <<"f", ".", "e">>, <<".", "f">>, <<"f", ".">>, <<".", ".">>}

Paths == SeqsUpTo(ComponentNames, MaxPathLen)

ParentDir == <<".", ".">>

\* OsStr::to_string_lossy of a path: the components joined by `/`
RECURSIVE PathToString(_)
PathToString(path) ==
    IF path = <<>> THEN <<>>
    ELSE IF Len(path) = 1 THEN path[1]
    ELSE path[1] \o <<"/">> \o PathToString(Tail(path))

\* Path::file_name: the last component unless it is `..`
PathFileName(path) ==
    IF path = <<>> \/ path[Len(path)] = ParentDir
    THEN Nothing
    ELSE Some(path[Len(path)])

\* Path::parent: the path without its last component
PathParent(path) ==
    IF path = <<>> THEN Nothing ELSE Some(SubSeq(path, 1, Len(path) - 1))

\* The index of the last `.` of a name, 0 when it has none
LastDot(name) ==
    LET dots == {i \in 1..Len(name) : name[i] = "."}
    IN  IF dots = {} THEN 0 ELSE CHOOSE i \in dots : \A j \in dots : j <= i

\* Path::file_stem: the name up to its last `.`; the whole name when it has
\* no `.` or only a leading one
PathFileStem(path) ==
    LET name == PathFileName(path)
    IN  IF ~name.some THEN Nothing
        ELSE IF LastDot(name.value) <= 1 THEN name
        ELSE Some(SubSeq(name.value, 1, LastDot(name.value) - 1))

\* Path::extension: the name after its last `.`; none when it has no `.` or
\* only a leading one
PathExtension(path) ==
    LET name == PathFileName(path)
    IN  IF ~name.some THEN Nothing
        ELSE IF LastDot(name.value) <= 1 THEN Nothing
        ELSE Some(SubSeq(name.value, LastDot(name.value) + 1, Len(name.value)))

\* Option::map_or_else(String::new, ..)
OrEmpty(option) == IF option.some THEN option.value ELSE <<>>

\* Captures of a match: group 0 is the whole match, each further group
\* either took part in the match or did not
GroupTexts == {<<"x">>}

CaptureGroups ==
    UNION {{<<Some(<<"a", "x">>)>> \o g :
               g \in [1..n -> {Nothing} \cup {Some(t) : t \in GroupTexts}]} :
           n \in 0..MaxGroups}

\* Captures::get(index)
CapturesGet(groups, index) ==
    IF index < Len(groups) THEN groups[index + 1] ELSE Nothing

\* EvalContext { path, local_counter, global_counter, regex_captures }
EvalContext(path, captures) ==
    [path |-> path,
     local_counter |-> 1,
     global_counter |-> 2,
     regex_captures |-> captures]

PathVariableKinds ==
    {"Filename", "Basename", "Extension", "ExtensionWithDot",
     "FullDirname", "ParentDirname", "FullPath"}

\* Variable::eval, the arms of the path variables
VariableEvalPath(variable, ctx) ==
    CASE variable = "Filename" -> FilterOk(OrEmpty(PathFileName(ctx.path)))
      [] variable = "Basename" -> FilterOk(OrEmpty(PathFileStem(ctx.path)))
      [] variable = "Extension" -> FilterOk(OrEmpty(PathExtension(ctx.path)))
      [] variable = "ExtensionWithDot" ->
             FilterOk(IF PathExtension(ctx.path).some
                      THEN <<".">> \o PathExtension(ctx.path).value
                      ELSE <<>>)
      [] variable = "FullDirname" ->
             FilterOk(IF PathParent(ctx.path).some
                      THEN PathToString(PathParent(ctx.path).value)
                      ELSE <<>>)
      [] variable = "ParentDirname" ->
             FilterOk(IF PathParent(ctx.path).some
                      THEN OrEmpty(PathFileName(PathParent(ctx.path).value))
                      ELSE <<>>)
      [] variable = "FullPath" -> FilterOk(PathToString(ctx.path))

\* The RegexCapture arm taking the group without testing that it is there
VariableEvalRegexCaptureUnchecked(index, ctx) ==
    IF /\ ctx.regex_captures.some
       /\ CapturesGet(ctx.regex_captures.value, index).some
    THEN FilterOk(CapturesGet(ctx.regex_captures.value, index).value)
    ELSE FilterErr("NoSuchCapture")

\* Variable::eval, the arm of RegexCapture(index)
VariableEvalRegexCapture(index, ctx) ==
    LET found == IF ctx.regex_captures.some
                 THEN CapturesGet(ctx.regex_captures.value, index)
                 ELSE Nothing
    IN  FilterOk(OrEmpty(found))

\* Variable::eval is called on a path variable
PathVariableEvalCall ==
    /\ \E variable \in PathVariableKinds :
          outcome' = [op |-> "Variable::eval", variable |-> variable, index |-> 0,
                      result |-> VariableEvalPath(variable, context[1])]
    /\ UNCHANGED <<reader, parsed, lexVars, evalVars, ioVars>>

\* Variable::eval is called on RegexCapture(index)
RegexCaptureEvalCall ==
    /\ \E index \in 0..(MaxGroups + 1) :
          outcome' = [op |-> "Variable::eval", variable |-> "RegexCapture", index |-> index,
                      result |-> VariableEvalRegexCapture(index, context[1])]
    /\ UNCHANGED <<reader, parsed, lexVars, evalVars, ioVars>>

VariableInit ==
    /\ callers = {1}
    /\ \E path \in Paths, captures \in {Nothing} \cup {Some(g) : g \in CaptureGroups} :
          context = <<EvalContext(path, captures)>>
    /\ given = context
    /\ pattern = <<>>
    /\ input = <<>>
    /\ eval = <<>>
    /\ prev = <<>>
    /\ rendered = <<>>
    /\ fs = {}
    /\ LexerIdle
    /\ ParseIdle
    /\ IoIdle

VariableNext == PathVariableEvalCall \/ RegexCaptureEvalCall

VariableSpec == VariableInit /\ [][VariableNext]_vars

(***************************************************************************)
(* highlight_range (src/utils.rs): the string is written with the range    *)
(* in colour, and under it a line of spaces and carets.  Colours are left  *)
(* out; a slice that does not fall on character boundaries panics.         *)
(***************************************************************************)
MaxHighlightLen == 3

HighlightStrings == SeqsUpTo({"a", "é", "{"}, MaxHighlightLen)

\* The byte offsets at which a character of the string starts, and its end
CharBoundaries(chars) == {ByteLen(SubSeq(chars, 1, i)) : i \in 0..Len(chars)}

\* The number of characters that lie before the byte offset, a boundary
CharsBefore(chars, offset) ==
    CHOOSE i \in 0..Len(chars) : ByteLen(SubSeq(chars, 1, i)) = offset

\* &string[from..to]: defined when both offsets are boundaries, in order
SliceOk(chars, from, to) ==
    /\ from <= to
    /\ from \in CharBoundaries(chars)
    /\ to \in CharBoundaries(chars)

Slice(chars, from, to) ==
    SubSeq(chars, CharsBefore(chars, from) + 1, CharsBefore(chars, to))

\* str::repeat
Repeat(ch, n) == [i \in 1..n |-> ch]

Max(a, b) == IF a >= b THEN a ELSE b

\* highlight_range taking the byte offsets for the columns
HighlightRangeByBytes(string, range) ==
    IF ~SliceOk(string, 0, range[1]) \/ ~SliceOk(string, range[1], range[2])
    THEN [op |-> "highlight_range", kind |-> "panic"]
    ELSE [op |-> "highlight_range", kind |-> "Ok",
          lines |-> << Slice(string, 0, range[1]) \o Slice(string, range[1], range[2])
                           \o Slice(string, range[2], ByteLen(string)),
                       Repeat(" ", range[1]) \o Repeat("^", Max(range[2] - range[1], 1)) >>]

\* highlight_range: what is written to the stream
HighlightRange(string, range) ==
    IF ~SliceOk(string, 0, range[1]) \/ ~SliceOk(string, range[1], range[2])
    THEN [op |-> "highlight_range", kind |-> "panic"]
    ELSE LET spaces_count == Len(Slice(string, 0, range[1]))
             markers_count == Max(Len(Slice(string, range[1], range[2])), 1)
         IN  [op |-> "highlight_range", kind |-> "Ok",
              lines |-> << Slice(string, 0, range[1]) \o Slice(string, range[1], range[2])
                               \o Slice(string, range[2], ByteLen(string)),
                           Repeat(" ", spaces_count) \o Repeat("^", markers_count) >>]

\* An error with a range in the source is rendered
HighlightRangeCall ==
    /\ parsed.kind = "Err"
    /\ outcome' = HighlightRange(source, parsed.error.range)
    /\ UNCHANGED <<reader, parsed, lexVars, evalVars, ioVars>>

HighlightInit ==
    /\ source \in HighlightStrings
    /\ lexer = LexerNew(source)
    /\ tokens = <<>>
    /\ lexState = "running"
    /\ \E start \in 0..(ByteLen(source) + 1), end \in 0..(ByteLen(source) + 1) :
          parsed = ParsedErr("UnknownFilter", <<start, end>>)
    /\ reader = [chars |-> <<>>, index |-> 0]
    /\ outcome = NoOutcome
    /\ EvalIdle
    /\ IoIdle

HighlightNext == HighlightRangeCall

HighlightSpec == HighlightInit /\ [][HighlightNext]_vars

(***************************************************************************)
(* Input::next over stdin (src/input.rs).  A byte is a string: `a`, the    *)
(* line feed LF, the carriage return CR, NUL, and xFF, which no UTF-8 text *)
(* holds.                                                                  *)
(***************************************************************************)
MaxStreamLen == 4
MaxEndCalls == 2
MaxIoErrors == 1

LF == "LF"
CR == "CR"
NUL == "NUL"

Bytes == {"a", LF, CR, NUL, "xFF"}

Delimiters == {None, LF, NUL}

StreamInputs == SeqsUpTo(Bytes, MaxStreamLen)

\* The bytes not read yet
Remaining(st) == SubSeq(st.input, st.index + 1, Len(st.input))

\* BufRead::read_until(delimiter, buffer): the bytes up to and with the first
\* delimiter, all of them when there is none
ReadUntil(bytes, delimiter) ==
    LET found == {i \in 1..Len(bytes) : bytes[i] = delimiter}
    IN  IF found = {} THEN bytes
        ELSE SubSeq(bytes, 1, CHOOSE i \in found : \A j \in found : i <= j)

\* Read::read_to_end(buffer)
ReadToEnd(bytes) == bytes

\* std::str::from_utf8: the offset of the first byte that is not UTF-8
\* (error.valid_up_to()), if there is one
InvalidUtf8At(bytes) ==
    LET bad == {i \in 1..Len(bytes) : bytes[i] = "xFF"}
    IN  IF bad = {} THEN Nothing
        ELSE Some((CHOOSE i \in bad : \A j \in bad : i <= j) - 1)

InputSome(value) == [kind |-> "Some", value |-> value]
InputNone == [kind |-> "None"]
InputInvalidData(offset) == [kind |-> "Err", error |-> "InvalidData", offset |-> offset]
InputIoError == [kind |-> "Err", error |-> "Io"]

\* The result of next() for the buffer read_until or read_to_end has filled,
\* removing a carriage return before any delimiter
InputNextResultAnyDelimiter(buffer, delimiter) ==
    IF Len(buffer) = 0 THEN InputNone
    ELSE LET size0 == Len(buffer)
             size1 == IF delimiter # None /\ buffer[size0] = delimiter
                      THEN size0 - 1 ELSE size0
             size2 == IF /\ size1 < size0
                         /\ size1 > 0
                         /\ buffer[size1] = CR
                      THEN size1 - 1 ELSE size1
             value == SubSeq(buffer, 1, size2)
         IN  IF ~InvalidUtf8At(value).some
             THEN InputSome(value)
             ELSE InputInvalidData(InvalidUtf8At(value).value)

\* The result of next() for the buffer read_until or read_to_end has filled
InputNextResult(buffer, delimiter) ==
    IF Len(buffer) = 0 THEN InputNone
    ELSE LET size0 == Len(buffer)
             size1 == IF delimiter # None /\ buffer[size0] = delimiter
                      THEN size0 - 1 ELSE size0
             size2 == IF /\ size1 < size0
                         /\ delimiter = LF
                         /\ size1 > 0
                         /\ buffer[size1] = CR
                      THEN size1 - 1 ELSE size1
             value == SubSeq(buffer, 1, size2)
         IN  IF ~InvalidUtf8At(value).some
             THEN InputSome(value)
             ELSE InputInvalidData(InvalidUtf8At(value).value)

\* The calls that found the input at its end, and those whose read failed
EndCalls == Cardinality({k \in 1..Len(returned) : returned[k] = InputNone})
IoErrors == Cardinality({k \in 1..Len(returned) : returned[k] = InputIoError})

\* Input::next, the read succeeds
InputNext ==
    /\ EndCalls < MaxEndCalls
    /\ LET buffer == IF stream.delimiter # None
                     THEN ReadUntil(Remaining(stream), stream.delimiter)
                     ELSE ReadToEnd(Remaining(stream))
       IN  /\ stream' = [stream EXCEPT !.index = @ + Len(buffer)]
           /\ returned' = Append(returned, InputNextResult(buffer, stream.delimiter))
    /\ UNCHANGED <<diff_position, lexVars, evalVars, parseVars>>

\* Input::next, the read fails: `Err(e) => Err(e)`
InputNextFails ==
    /\ EndCalls < MaxEndCalls
    /\ IoErrors < MaxIoErrors
    /\ returned' = Append(returned, InputIoError)
    /\ UNCHANGED <<stream, diff_position, lexVars, evalVars, parseVars>>

InputInit ==
    /\ \E bytes \in StreamInputs, delimiter \in Delimiters :
          stream = [input |-> bytes, index |-> 0, delimiter |-> delimiter]
    /\ diff_position = NoPosition
    /\ returned = <<>>
    /\ LexerIdle
    /\ EvalIdle
    /\ ParseIdle

InputSpecNext == InputNext \/ InputNextFails

InputSpec == InputInit /\ [][InputSpecNext]_vars

(***************************************************************************)
(* PathDiff (src/common/transfer/input.rs): values are read in pairs, one  *)
(* starting with `<` and one starting with `>`.  The Splitter gives the    *)
(* next value without its terminator and the number of bytes it took.      *)
(***************************************************************************)
MaxDiffValues == 4

DIFF_IN == "<"
DIFF_OUT == ">"

\* The values the input is made of: good ones, a prefix alone, the empty
\* value, one with another first character
DiffValues ==
    {<<DIFF_IN, "a">>, <<DIFF_OUT, "a">>, <<DIFF_IN>>, <<DIFF_OUT>>, <<>>, <<"a">>}

\* The bytes of a sequence of values, each followed by the terminator but
\* for the last when `open`
RECURSIVE JoinValues(_, _)
JoinValues(values, open) ==
    IF values = <<>> THEN <<>>
    ELSE IF Len(values) = 1 /\ open THEN values[1]
    ELSE values[1] \o <<LF>> \o JoinValues(Tail(values), open)

DiffInputs ==
    {JoinValues(values, open) :
        values \in SeqsUpTo(DiffValues, MaxDiffValues), open \in BOOLEAN}

\* Position::new
PositionNew == [item |-> 1, offset |-> 0]

\* Position::increment leaving the offset as it is
PositionIncrementItemOnly(pos, size) ==
    [item |-> pos.item + 1, offset |-> pos.offset]

\* Position::increment
PositionIncrement(pos, size) ==
    [item |-> pos.item + 1, offset |-> pos.offset + size]

\* Splitter::read: the next value and its size, terminator included
SplitterRead(st) ==
    LET buffer == ReadUntil(Remaining(st), st.delimiter)
    IN  IF buffer = <<>> THEN Nothing
        ELSE Some([value |-> IF buffer[Len(buffer)] = st.delimiter
                             THEN SubSeq(buffer, 1, Len(buffer) - 1)
                             ELSE buffer,
                   size |-> Len(buffer)])

SplitterAfterRead(st) ==
    [st EXCEPT !.index = @ + Len(ReadUntil(Remaining(st), st.delimiter))]

DiffOk(value) == [kind |-> "Ok", value |-> value]

DiffErr(kind, text, prefix, got, pos) ==
    [kind |-> "Err", error |-> kind, text |-> text, prefix |-> prefix, got |-> got,
     item |-> pos.item, offset |-> pos.offset]

\* make_unexpected_eof_error
MakeUnexpectedEofError(pos, prefix) ==
    DiffErr("UnexpectedEof", "Expected", prefix, None, pos)

\* extract_path reporting an empty value as invalid data
ExtractPathEmptyIsInvalid(value, pos, prefix) ==
    IF value # <<>>
    THEN IF value[1] = prefix
         THEN LET path == Tail(value)
              IN  IF path = <<>>
                  THEN DiffErr("UnexpectedEof", "Expected a path after", prefix, None, pos)
                  ELSE DiffOk(path)
         ELSE DiffErr("InvalidData", "Expected but got", prefix, value[1], pos)
    ELSE DiffErr("InvalidData", "Expected", prefix, None, pos)

\* extract_path
ExtractPath(value, pos, prefix) ==
    IF value # <<>>
    THEN IF value[1] = prefix
         THEN LET path == Tail(value)
              IN  IF path = <<>>
                  THEN DiffErr("UnexpectedEof", "Expected a path after", prefix, None, pos)
                  ELSE DiffOk(path)
         ELSE DiffErr("InvalidData", "Expected but got", prefix, value[1], pos)
    ELSE MakeUnexpectedEofError(pos, prefix)

DiffSome(in_path, out_path) == [kind |-> "Some", pair |-> <<in_path, out_path>>]
DiffNone == [kind |-> "None"]

\* PathDiff::read taking the end of the input after a `<` value for the end
\* of the pairs
PathDiffReadEndsAnywhere(st, pos) ==
    LET first == SplitterRead(st)
        st1 == SplitterAfterRead(st)
    IN  IF ~first.some
        THEN [result |-> DiffNone, stream |-> st1, position |-> pos]
        ELSE LET in_path == ExtractPath(first.value.value, pos, DIFF_IN)
                 pos1 == PositionIncrement(pos, first.value.size)
                 second == SplitterRead(st1)
                 st2 == SplitterAfterRead(st1)
             IN  IF in_path.kind = "Err"
                 THEN [result |-> in_path, stream |-> st1, position |-> pos]
                 ELSE IF ~second.some
                 THEN [result |-> DiffNone, stream |-> st2, position |-> pos1]
                 ELSE LET out_path == ExtractPath(second.value.value, pos1, DIFF_OUT)
                          pos2 == PositionIncrement(pos1, second.value.size)
                      IN  IF out_path.kind = "Err"
                          THEN [result |-> out_path, stream |-> st2, position |-> pos1]
                          ELSE [result |-> DiffSome(in_path.value, out_path.value),
                                stream |-> st2, position |-> pos2]

\* PathDiff::read: the result, and the splitter and the position after it
PathDiffRead(st, pos) ==
    LET first == SplitterRead(st)
        st1 == SplitterAfterRead(st)
    IN  IF ~first.some
        THEN [result |-> DiffNone, stream |-> st1, position |-> pos]
        ELSE LET in_path == ExtractPath(first.value.value, pos, DIFF_IN)
                 pos1 == PositionIncrement(pos, first.value.size)
                 second == SplitterRead(st1)
                 st2 == SplitterAfterRead(st1)
             IN  IF in_path.kind = "Err"
                 THEN [result |-> in_path, stream |-> st1, position |-> pos]
                 ELSE IF ~second.some
                 THEN [result |-> MakeUnexpectedEofError(pos1, DIFF_OUT),
                       stream |-> st2, position |-> pos1]
                 ELSE LET out_path == ExtractPath(second.value.value, pos1, DIFF_OUT)
                          pos2 == PositionIncrement(pos1, second.value.size)
                      IN  IF out_path.kind = "Err"
                          THEN [result |-> out_path, stream |-> st2, position |-> pos1]
                          ELSE [result |-> DiffSome(in_path.value, out_path.value),
                                stream |-> st2, position |-> pos2]

\* The calls of read() that returned Ok(None)
DiffEndCalls == Cardinality({k \in 1..Len(returned) : returned[k] = DiffNone})

\* PathDiff::read is called
PathDiffReadCall ==
    /\ DiffEndCalls < MaxEndCalls
    /\ LET r == PathDiffRead(stream, diff_position)
       IN  /\ returned' = Append(returned, r.result)
           /\ stream' = r.stream
           /\ diff_position' = r.position
    /\ UNCHANGED <<lexVars, evalVars, parseVars>>

\* PathDiff::new(input, Terminator::Newline)
PathDiffInit ==
    /\ \E bytes \in DiffInputs :
          stream = [input |-> bytes, index |-> 0, delimiter |-> LF]
    /\ diff_position = PositionNew
    /\ returned = <<>>
    /\ LexerIdle
    /\ EvalIdle
    /\ ParseIdle

PathDiffNext == PathDiffReadCall

PathDiffSpec == PathDiffInit /\ [][PathDiffNext]_vars

(***************************************************************************)
(* Static queries of a Pattern (src/bin/rew/pattern/mod.rs).  The filters  *)
(* are records here: the variant and, for RegexCapture, its group number.  *)
(***************************************************************************)
MaxUsesSize == 4

FilterFileName == [kind |-> "FileName"]
FilterLocalCounter == [kind |-> "LocalCounter"]
FilterGlobalCounter == [kind |-> "GlobalCounter"]
FilterRegexCapture(n) == [kind |-> "RegexCapture", index |-> n]

UsesFilters ==
    {FilterFileName, FilterLocalCounter, FilterGlobalCounter,
     FilterRegexCapture(1), FilterRegexCapture(2)}

\* Item::Constant or Item::Expression(filters), with at most n nodes
UsesItems(n) ==
    {[value |-> [type |-> "Constant", text |-> <<"a">>]]}
        \cup {[value |-> [type |-> "Expression",
                          filters |-> [j \in 1..Len(f) |-> [value |-> f[j]]]]] :
                  f \in SeqsUpTo(UsesFilters, n - 1)}

UsesItemSize(it) ==
    IF it.value.type = "Constant" THEN 1 ELSE 1 + Len(it.value.filters)

\* Pattern::from(items): the patterns with at most n nodes
RECURSIVE UsesPatterns(_)
UsesPatterns(n) ==
    IF n = 0 THEN {<<>>}
    ELSE {<<>>} \cup
         UNION {{<<it>> \o p : p \in UsesPatterns(n - UsesItemSize(it))} :
                    it \in {i \in UsesItems(n) : UsesItemSize(i) <= n}}

\* The closures the three queries pass to uses_filter
TestLocalCounter(filter) == filter = FilterLocalCounter
TestGlobalCounter(filter) == filter = FilterGlobalCounter
TestRegexCapture(filter) == filter.kind = "RegexCapture"

Queries == {"uses_local_counter", "uses_global_counter", "uses_regex_capture"}

Test(query, filter) ==
    CASE query = "uses_local_counter" -> TestLocalCounter(filter)
      [] query = "uses_global_counter" -> TestGlobalCounter(filter)
      [] query = "uses_regex_capture" -> TestRegexCapture(filter)

\* filters.iter().any(..): the filters are tested from the first on
RECURSIVE AnyFilter(_, _)
AnyFilter(query, filters) ==
    IF filters = <<>> THEN FALSE
    ELSE IF Test(query, Head(filters).value) THEN TRUE
    ELSE AnyFilter(query, Tail(filters))

\* uses_filter looking at the first filter of each expression only
RECURSIVE UsesFilterFirstOfChain(_, _)
UsesFilterFirstOfChain(items, query) ==
    IF items = <<>> THEN FALSE
    ELSE IF /\ Head(items).value.type = "Expression"
            /\ Head(items).value.filters # <<>>
            /\ Test(query, Head(items).value.filters[1].value)
         THEN TRUE
         ELSE UsesFilterFirstOfChain(Tail(items), query)

\* Pattern::uses_filter: self.items.iter().any(..)
RECURSIVE UsesFilter(_, _)
UsesFilter(items, query) ==
    IF items = <<>> THEN FALSE
    ELSE IF /\ Head(items).value.type = "Expression"
            /\ AnyFilter(query, Head(items).value.filters)
         THEN TRUE
         ELSE UsesFilter(Tail(items), query)

\* One of the three queries is called on the pattern
UsesCall(query) ==
    /\ outcome' = [op |-> query, result |-> UsesFilter(pattern, query)]
    /\ UNCHANGED <<reader, parsed, lexVars, evalVars, ioVars>>

UsesLocalCounter == UsesCall("uses_local_counter")
UsesGlobalCounter == UsesCall("uses_global_counter")
UsesRegexCapture == UsesCall("uses_regex_capture")

UsesInit ==
    /\ pattern \in UsesPatterns(MaxUsesSize)
    /\ callers = {}
    /\ input = <<>>
    /\ context = <<>>
    /\ given = <<>>
    /\ eval = <<>>
    /\ prev = <<>>
    /\ rendered = <<>>
    /\ fs = {}
    /\ LexerIdle
    /\ ParseIdle
    /\ IoIdle

UsesNext == UsesLocalCounter \/ UsesGlobalCounter \/ UsesRegexCapture

UsesSpec == UsesInit /\ [][UsesNext]_vars

(***************************************************************************)
(* Pattern evaluation: what the properties speak about                     *)
(***************************************************************************)
Done(c) == eval[c].pc = "done"
Succeeded(c) == Done(c) /\ eval[c].result.kind = "Ok"
Failed(c) == Done(c) /\ eval[c].result.kind = "Err"

FilterAt(i, j) == pattern[i].value.filters[j]

\* The filters used anywhere in the pattern
UsedFilters ==
    UNION {{pattern[i].value.filters[j].value : j \in 1..Len(pattern[i].value.filters)} :
              i \in {k \in 1..Len(pattern) : pattern[k].value.type = "Expression"}}

\* Every filter of the pattern, as <<item, filter>>, in source order
RECURSIVE CallsFrom(_)
CallsFrom(i) ==
    IF i > Len(pattern) THEN <<>>
    ELSE (IF pattern[i].value.type = "Expression"
          THEN [j \in 1..Len(pattern[i].value.filters) |-> <<i, j>>]
          ELSE <<>>) \o CallsFrom(i + 1)

\* The calls of Filter::eval made so far are those of a left-to-right walk:
\* in source order, the first filter of an Expression on the input, every
\* other one on the result of the filter before it.
TraceIsChain(c) ==
    LET tr == eval[c].trace
        calls == CallsFrom(1)
    IN  /\ Len(tr) <= Len(calls)
        /\ \A k \in 1..Len(tr) :
              /\ <<tr[k].item, tr[k].filter>> = calls[k]
              /\ tr[k].arg = IF tr[k].filter = 1 THEN input[c] ELSE tr[k - 1].result.value
              /\ tr[k].result \in
                     FilterEval(FilterAt(tr[k].item, tr[k].filter).value, tr[k].arg,
                                given[c], tr[k].fs)

\* The value of Expression i once its chain has run
ExpressionValue(c, i) ==
    IF pattern[i].value.filters = <<>> THEN input[c]
    ELSE LET tr == eval[c].trace
             k == CHOOSE n \in 1..Len(tr) :
                      tr[n].item = i /\ tr[n].filter = Len(pattern[i].value.filters)
         IN  tr[k].result.value

Wrap(quotes, value) == IF quotes = None THEN value ELSE <<quotes>> \o value \o <<quotes>>

RECURSIVE Concatenation(_, _, _)
Concatenation(c, i, quotes) ==
    IF i > Len(pattern) THEN <<>>
    ELSE (IF pattern[i].value.type = "Constant"
          THEN pattern[i].value.text
          ELSE Wrap(quotes, ExpressionValue(c, i))) \o Concatenation(c, i + 1, quotes)

(***************************************************************************)
(* C1  If a filter returns an error, eval returns Err at once: no later    *)
(* filter or item is evaluated, no partial output is returned, and the     *)
(* error carries the original input (not the value transformed by the      *)
(* earlier filters), the failing filter and that filter's source range.    *)
(***************************************************************************)
C1_FirstFailureShortCircuits ==
    \A c \in callers :
        LET e == eval[c]
            tr == e.trace
        IN  /\ \A k \in 1..(Len(tr) - 1) : tr[k].result.ok
            /\ (tr # <<>> /\ ~tr[Len(tr)].result.ok) =>
                  LET last == tr[Len(tr)]
                      failing == FilterAt(last.item, last.filter)
                  IN  /\ e.pc = "done"
                      /\ e.item = last.item /\ e.filter = last.filter
                      /\ DOMAIN e.result = {"kind", "error"}
                      /\ e.result.kind = "Err"
                      /\ e.result.error.kind = last.result.kind
                      /\ e.result.error.value = input[c]
                      /\ e.result.error.cause = failing.value
                      /\ e.result.error.range = failing.range
            /\ Failed(c) => tr # <<>> /\ ~tr[Len(tr)].result.ok

\* A chain fails at its second filter, on a value the first one has changed
C1_Witness ==
    \E c \in callers :
        /\ Failed(c)
        /\ Len(eval[c].trace) = 2
        /\ eval[c].trace[2].arg # input[c]
        /\ eval[c].result.error.range = <<3, 4>>

(***************************************************************************)
(* C2  On success the output is the concatenation, in item order, of each  *)
(* Constant's text and each Expression's value; the value is computed from *)
(* the original input by the filters left to right, each receiving the     *)
(* result of the one before, and is the input itself without filters.      *)
(***************************************************************************)
C2_OutputIsConcatenationOfValues ==
    \A c \in callers :
        Succeeded(c) =>
            /\ TraceIsChain(c)
            /\ Len(eval[c].trace) = Len(CallsFrom(1))
            /\ eval[c].result.output = Concatenation(c, 1, None)

\* C2 as amended: each Expression's value is wrapped in the quote character
\* of the context, when one is set, before it is concatenated.
C2_OutputIsConcatenationOfQuotedValues ==
    \A c \in callers :
        Succeeded(c) =>
            /\ TraceIsChain(c)
            /\ Len(eval[c].trace) = Len(CallsFrom(1))
            /\ eval[c].result.output = Concatenation(c, 1, given[c].expression_quotes)

\* Two filters in a chain, the second one working on the result of the first
C2_Witness ==
    \E c \in callers :
        /\ Succeeded(c)
        /\ Len(pattern) = 1
        /\ Len(eval[c].trace) = 2
        /\ eval[c].trace[2].arg # input[c]
        /\ eval[c].result.output = <<"/", "D", "/", "A">>

(***************************************************************************)
(* C3  With expression quote Some(q) every Expression's final value (after *)
(* its last filter) is emitted as q, value, q and Constants are emitted    *)
(* without quotes; with None no quote character is added anywhere.         *)
(***************************************************************************)
C3_QuotesAroundExpressionsOnly ==
    [][\A c \in callers :
          LET e == eval[c]
              f == eval'[c]
              q == given[c].expression_quotes
          IN  \/ f = e
              \* an Expression ends: its final value is pushed, in quotes if any
              \/ /\ e.pc = "filter" /\ f.pc = "item"
                 /\ e.item \in 1..Len(pattern)
                 /\ e.filter = Len(pattern[e.item].value.filters) + 1
                 /\ e.value = ExpressionValue(c, e.item)
                 /\ f.output = IF q = None THEN e.output \o e.value
                               ELSE e.output \o <<q>> \o e.value \o <<q>>
              \* a Constant is pushed as it is
              \/ /\ e.pc = "item" /\ f.pc = "item"
                 /\ e.item \in 1..Len(pattern)
                 /\ pattern[e.item].value.type = "Constant"
                 /\ f.output = e.output \o pattern[e.item].value.text
              \* nothing else adds to the output, and what is returned is the output
              \/ e.pc = "item" /\ f.pc = "filter" /\ f.output = e.output
              \/ e.pc = "filter" /\ f.pc \in {"filter", "done"} /\ f.output = e.output
              \/ e.pc = "item" /\ f.pc = "done" /\ f.result = EvalOk(e.output)
              \/ e.pc = "idle" /\ f.output = <<>>
              \/ e.pc = "done" /\ f.pc = "idle"
      ]_vars

\* A quoted evaluation of `_{L}` has ended with the constant unquoted
C3_Witness ==
    \E c \in callers :
        /\ Succeeded(c)
        /\ given[c].expression_quotes = "'"
        /\ input[c] = <<"a">>
        /\ eval[c].result.output = <<"_", "'", "A", "'">>

(***************************************************************************)
(* C4  Evaluation never changes the context: after any number of           *)
(* evaluations of the pattern, of a filter or of a variable, successful or *)
(* failing, the counters, captures, current directory and quote are what   *)
(* the caller set, and the counter filters render the current value until  *)
(* the caller itself advances the counter.                                 *)
(***************************************************************************)
C4_ContextIsWhatTheCallerSet ==
    \A c \in callers :
        /\ context[c] = given[c]
        /\ rendered[c] # NoRendered =>
              rendered[c].result =
                  FilterOk(UsizeToString(IF rendered[c].variable = "LocalCounter"
                                    THEN given[c].local_counter
                                    ELSE given[c].global_counter))
        /\ \A k \in 1..Len(eval[c].trace) :
              LET call == eval[c].trace[k]
                  filter == FilterAt(call.item, call.filter).value
              IN  /\ filter = "LocalCounter" =>
                        call.result = FilterOk(UsizeToString(given[c].local_counter))
                  /\ filter = "GlobalCounter" =>
                        call.result = FilterOk(UsizeToString(given[c].global_counter))

\* After a failed evaluation and an advance of the counters by the caller,
\* a second evaluation has rendered the local counter
C4_Witness ==
    \E c \in callers :
        /\ prev[c] # NoPrev
        /\ prev[c].result.kind = "Err"
        /\ given[c].local_counter = 2
        /\ Succeeded(c)
        /\ "LocalCounter" \in UsedFilters
        /\ eval[c].result.output = <<"2">>

RECURSIVE ChainAlone(_, _, _, _, _)
ChainAlone(filters, j, inp, value, ctx) ==
    IF j > Len(filters) THEN {FilterOk(value)}
    ELSE UNION {
           UNION {IF r.ok
                  THEN ChainAlone(filters, j + 1, inp, r.value, ctx)
                  ELSE {[ok |-> FALSE,
                         error |-> [kind |-> r.kind, value |-> inp,
                                    cause |-> filters[j].value,
                                    range |-> filters[j].range]]}
                  : r \in FilterEval(filters[j].value, value, ctx, fsys)}
           : fsys \in SUBSET FsUniverse}

\* The results eval can return when it runs alone from item i on
RECURSIVE EvalAlone(_, _, _, _)
EvalAlone(i, inp, output, ctx) ==
    IF i > Len(pattern) THEN {[kind |-> "Ok", output |-> output]}
    ELSE IF pattern[i].value.type = "Constant"
         THEN EvalAlone(i + 1, inp, output \o pattern[i].value.text, ctx)
         ELSE UNION {IF r.ok
                     THEN EvalAlone(i + 1, inp,
                                    output \o Wrap(ctx.expression_quotes, r.value), ctx)
                     ELSE {[kind |-> "Err", error |-> r.error]}
                     : r \in ChainAlone(pattern[i].value.filters, 1, inp, inp, ctx)}

C6_SharedPatternIndependentCallers ==
    /\ [](\A c \in callers : Done(c) => eval[c].result \in EvalAlone(1, input[c], <<>>, given[c]))
    /\ [][/\ pattern' = pattern
          /\ context' = context
          /\ input' = input
          /\ \A c \in callers :
                eval'[c] # eval[c] => \A d \in callers \ {c} : eval'[d] = eval[d]
         ]_vars

\* Two callers have finished the same counter pattern with different results
C6_Witness ==
    /\ Cardinality(callers) >= 2
    /\ "LocalCounter" \in UsedFilters
    /\ \A c \in callers : Succeeded(c)
    /\ \E c, d \in callers : eval[c].result # eval[d].result

(***************************************************************************)
(* Lexer: reference reading of the escaping rules, used by the properties  *)
(***************************************************************************)
\* The source characters a token was made from
TokenSpan(t) == SubSeq(source, t.first + 1, t.last)

\* The source character at 0-based index i, None past the end
CharAt(i) == IF i < Len(source) THEN source[i + 1] ELSE None

Braces == {EXPR_START, EXPR_END}
Specials == {EXPR_START, EXPR_END, PIPE}

\* Outside an expression, read left to right: a brace followed by the same
\* brace stands for one brace, any other character but a brace for itself.
\* <<"?">>-prefixed results mark a span that holds an unescaped brace.
RECURSIVE OutsideText(_)
OutsideText(s) ==
    IF s = <<>> THEN [ok |-> TRUE, text |-> <<>>]
    ELSE IF Head(s) \in Braces
         THEN IF Len(s) >= 2 /\ s[2] = s[1]
              THEN LET rest == OutsideText(SubSeq(s, 3, Len(s)))
                   IN  [ok |-> rest.ok, text |-> <<s[1]>> \o rest.text]
              ELSE [ok |-> FALSE, text |-> <<>>]
         ELSE LET rest == OutsideText(Tail(s))
              IN  [ok |-> rest.ok, text |-> <<Head(s)>> \o rest.text]

\* Inside an expression: a pipe followed by a brace or a pipe stands for that
\* second character, any other character but a brace or a pipe for itself.
RECURSIVE InsideText(_)
InsideText(s) ==
    IF s = <<>> THEN [ok |-> TRUE, text |-> <<>>]
    ELSE IF Head(s) = PIPE
         THEN IF Len(s) >= 2 /\ s[2] \in Specials
              THEN LET rest == InsideText(SubSeq(s, 3, Len(s)))
                   IN  [ok |-> rest.ok, text |-> <<s[2]>> \o rest.text]
              ELSE [ok |-> FALSE, text |-> <<>>]
         ELSE IF Head(s) \in Braces
              THEN [ok |-> FALSE, text |-> <<>>]
              ELSE LET rest == InsideText(Tail(s))
                   IN  [ok |-> rest.ok, text |-> <<Head(s)>> \o rest.text]

\* What a test of the lexer compares: type, text and position of each token
Emitted == [k \in 1..Len(tokens) |->
               <<tokens[k].typ, tokens[k].raw, tokens[k].position>>]

(***************************************************************************)
(* C7  Outside an expression braces are handled left to right: a brace     *)
(* followed by the same brace adds one literal brace to the current Raw    *)
(* token and both characters are consumed; any other `{` ends the Raw      *)
(* token and yields ExprStart, any other `}` yields ExprEnd.  So `{{` is   *)
(* Raw("{"), `}}` is Raw("}") and `{{{` is Raw("{") then ExprStart.        *)
(***************************************************************************)
C7_OutsideBraces ==
    /\ \A k \in 1..Len(tokens) :
          LET t == tokens[k]
              next == CharAt(t.last)
          IN  ~t.inside =>
                /\ t.typ = "Raw" =>
                      /\ OutsideText(TokenSpan(t)).ok
                      /\ t.raw = OutsideText(TokenSpan(t)).text
                      /\ next # None =>
                            /\ next \in Braces
                            /\ CharAt(t.last + 1) # next
                      /\ k < Len(tokens) =>
                            tokens[k + 1].typ =
                                (IF next = EXPR_START THEN "ExprStart" ELSE "ExprEnd")
                /\ t.typ = "ExprStart" => TokenSpan(t) = <<EXPR_START>> /\ next # EXPR_START
                /\ t.typ = "ExprEnd" => TokenSpan(t) = <<EXPR_END>> /\ next # EXPR_END
                /\ t.typ \in {"Raw", "ExprStart", "ExprEnd"}
    /\ lexState = "ended" =>
          /\ source = <<"{", "{">> => Emitted = << <<"Raw", <<"{">>, 0>> >>
          /\ source = <<"}", "}">> => Emitted = << <<"Raw", <<"}">>, 0>> >>
          /\ source = <<"{", "{", "{">> =>
                Emitted = << <<"Raw", <<"{">>, 0>>, <<"ExprStart", <<>>, 2>> >>

C7_Witness ==
    /\ lexState = "ended"
    /\ source = <<"{", "{", "{">>
    /\ Len(tokens) = 2

(***************************************************************************)
(* C8  Inside an expression a `|` followed by `{`, `}` or `|` adds that    *)
(* second character to the current Raw token and both are consumed; a `|`  *)
(* followed by anything else or by the end of input yields Pipe.  No Pipe  *)
(* token is emitted outside an expression.                                 *)
(***************************************************************************)
C8_InsidePipes ==
    \A k \in 1..Len(tokens) :
        LET t == tokens[k]
            next == CharAt(t.last)
        IN  /\ t.inside /\ t.typ = "Raw" =>
                  /\ InsideText(TokenSpan(t)).ok
                  /\ t.raw = InsideText(TokenSpan(t)).text
                  /\ \/ next \in {None, EXPR_START, EXPR_END}
                     \/ next = PIPE /\ CharAt(t.last + 1) \notin Specials
                  /\ (next = PIPE /\ k < Len(tokens)) => tokens[k + 1].typ = "Pipe"
            /\ t.typ = "Pipe" =>
                  /\ t.inside
                  /\ TokenSpan(t) = <<PIPE>>
                  /\ next \notin Specials
            /\ (~t.inside /\ PIPE \in {TokenSpan(t)[i] : i \in 1..Len(TokenSpan(t))}) =>
                  t.typ = "Raw"

C8_Witness ==
    /\ lexState = "ended"
    /\ source = <<"{", "|", "}", "|">>
    /\ Emitted = << <<"ExprStart", <<>>, 0>>, <<"Raw", <<"}">>, 1>>, <<"Pipe", <<>>, 3>> >>

(***************************************************************************)
(* C9  Every token's position is the source offset of the first character  *)
(* consumed for it, the lookahead fetched for the next token not counted.  *)
(***************************************************************************)
C9_PositionIsOffsetOfFirstChar ==
    \A k \in 1..Len(tokens) :
        tokens[k].position = ByteLen(SubSeq(source, 1, tokens[k].first))

(***************************************************************************)
(* C10 The token stream is total: the first token is at offset 0, token    *)
(* positions are strictly increasing, and when next() returns None every   *)
(* source character has been consumed as part of exactly one token.        *)
(***************************************************************************)
C10_TokenStreamTotal ==
    /\ tokens # <<>> => tokens[1].position = 0 /\ tokens[1].first = 0
    /\ \A k \in 1..Len(tokens) : tokens[k].first < tokens[k].last
    /\ \A k \in 1..(Len(tokens) - 1) :
          /\ tokens[k].position < tokens[k + 1].position
          /\ tokens[k + 1].first = tokens[k].last
    /\ lexState = "ended" =>
          IF tokens = <<>> THEN source = <<>>
          ELSE tokens[Len(tokens)].last = Len(source)

C10_Witness ==
    /\ lexState = "ended"
    /\ Len(source) = 4
    /\ Len(tokens) = 4

(***************************************************************************)
(* C12 No source makes the Lexer panic: when the loop of next() ends with  *)
(* no raw text, the current character is `{`, `}`, a `|` inside an         *)
(* expression or the end of input, so neither "Unexpected character" arm   *)
(* is reached, and make_token never subtracts from position 0.             *)
(***************************************************************************)
C12_LexerNeverPanics ==
    /\ lexState # "panicked"
    /\ LET r == IF lexer.in_expression
                THEN InsideLoop(source, lexer, <<>>)
                ELSE OutsideLoop(source, lexer, <<>>)
       IN  /\ r.raw = <<>> =>
                 r.lexer.character \in
                     (IF lexer.in_expression
                      THEN {EXPR_START, EXPR_END, PIPE, None}
                      ELSE {EXPR_START, EXPR_END, None})
           /\ (IF lexer.in_expression
               THEN NextInExpressionResult(source, lexer)
               ELSE NextOutsideExpressionResult(source, lexer)).kind # "panic"
    /\ tokens # <<>> => SourcePosition(source, lexer.index) >= 1

\* `}{||{` has been lexed to its end: ExprEnd, ExprStart, Raw("|"), ExprStart
C12_Witness ==
    /\ lexState = "ended"
    /\ source = <<"}", "{", "|", "|", "{">>
    /\ Emitted = << <<"ExprEnd", <<>>, 0>>, <<"ExprStart", <<>>, 1>>,
                    <<"Raw", <<"|">>, 2>>, <<"ExprStart", <<>>, 4>> >>

(***************************************************************************)
(* C14 Inside an expression `{|{|}` gives the literal text `{}`: after the *)
(* opening `{`, the escapes `|{` and `|}` produce the characters `{` and   *)
(* `}` of one Raw token.                                                   *)
(***************************************************************************)
C14_EscapedBracesInsideExpression ==
    source = <<"{", "|", "{", "|", "}">> =>
        LET expected == << <<"ExprStart", <<>>, 0>>, <<"Raw", <<"{", "}">>, 1>> >>
        IN  /\ Len(Emitted) <= 2
            /\ Emitted = SubSeq(expected, 1, Len(Emitted))
            /\ lexState = "ended" => Emitted = expected

C14_Witness ==
    /\ lexState = "ended"
    /\ source = <<"{", "|", "{", "|", "}">>
    /\ Len(tokens) = 2
    /\ tokens[2].raw = <<"{", "}">>
    /\ tokens[2].inside

(***************************************************************************)
(* Parsing one filter or variable: what the properties speak about         *)
(***************************************************************************)
\* The call the outcome records was made on this character, at this offset
CodeChar == ReaderPeek(outcome.before)
CodeOffset == ByteLen(SubSeq(outcome.before.chars, 1, outcome.before.index))

\* The characters that follow the code
ArgumentText ==
    SubSeq(outcome.before.chars, outcome.before.index + 2, Len(outcome.before.chars))

\* The number of leading decimal digits of a text and the number they write
LeadingDigits(text) ==
    CHOOSE k \in 0..Len(text) :
        /\ \A i \in 1..k : text[i] \in DecimalDigits
        /\ k = Len(text) \/ text[k + 1] \notin DecimalDigits

RECURSIVE NumberOf(_)
NumberOf(digits) ==
    IF digits = <<>> THEN 0
    ELSE 10 * NumberOf(SubSeq(digits, 1, Len(digits) - 1))
             + DigitValue(digits[Len(digits)])

\* The 25 codes of the filters
DefinedFilterCodes ==
    {"a", "A", "d", "f", "b", "e", "E", "n", "N", "r", "R", "?", "t", "l", "L",
     "i", "I", "<", ">", "m", "s", "S", "c", "C", "u"}

\* The codes of the variables; a digit starts a capture reference
DefinedVariableCodes == {"f", "b", "e", "E", "d", "D", "p", "c", "C", "u"}

(***************************************************************************)
(* C15 The code set is closed: Filter::parse on a first character that is  *)
(* none of the 25 codes returns UnknownFilter with that character and a    *)
(* range from the character to right after it, whatever follows; the same  *)
(* holds for UnknownVariable in Variable::parse(reader).                   *)
(***************************************************************************)
C15_UnknownCodeSpansOneCharacter ==
    /\ Cardinality(DefinedFilterCodes) = 25
    /\ outcome.op \in {"Filter::parse", "Variable::parse"} =>
          LET known == IF outcome.op = "Filter::parse"
                       THEN DefinedFilterCodes
                       ELSE DefinedVariableCodes \cup DecimalDigits
              name == IF outcome.op = "Filter::parse"
                      THEN "UnknownFilter" ELSE "UnknownVariable"
          IN  IF CodeChar # None /\ CodeChar \notin known
              THEN /\ ~outcome.result.ok
                   /\ outcome.result.error.kind = [name |-> name, char |-> CodeChar]
                   /\ outcome.result.error.range =
                          <<CodeOffset, CodeOffset + LenUtf8(CodeChar)>>
                   /\ outcome.after.index = outcome.before.index + 1
              ELSE outcome.result.ok \/ outcome.result.error.kind.name # name

\* `-__` has been given to Filter::parse, as in parse_unknown_filter_error
C15_Witness ==
    /\ outcome.op = "Filter::parse"
    /\ outcome.before = ReaderFrom(<<"-", "_", "_">>)
    /\ ~outcome.result.ok
    /\ outcome.result.error.range = <<0, 1>>

(***************************************************************************)
(* C16 When the segment ends where something is required, parsing fails    *)
(* with an empty range at that point: an empty segment gives ExpectedFilter *)
(* with range p..p; n, N followed by nothing give ExpectedRange, r, R, s,  *)
(* S ExpectedSubstitution and m ExpectedRegex, with the empty range right  *)
(* after the code.                                                         *)
(***************************************************************************)
C16_MissingPartHasEmptyRange ==
    outcome.op = "Filter::parse" =>
        LET expected ==
                CASE CodeChar = None -> "ExpectedFilter"
                  [] CodeChar \in {"n", "N"} -> "ExpectedRange"
                  [] CodeChar \in {"r", "R", "s", "S"} -> "ExpectedSubstitution"
                  [] CodeChar = "m" -> "ExpectedRegex"
                  [] OTHER -> "nothing"
            point == IF CodeChar = None THEN CodeOffset ELSE CodeOffset + LenUtf8(CodeChar)
        IN  /\ (expected # "nothing" /\ ArgumentText = <<>>) =>
                  /\ ~outcome.result.ok
                  /\ outcome.result.error.kind = [name |-> expected]
                  /\ outcome.result.error.range = <<point, point>>
            /\ (~outcome.result.ok /\ outcome.result.error.kind.name = "ExpectedFilter") =>
                  CodeChar = None

\* `N` alone has been given to Filter::parse, as in parse_substring_backward
C16_Witness ==
    /\ outcome.op = "Filter::parse"
    /\ outcome.before = ReaderFrom(<<"N">>)
    /\ ~outcome.result.ok
    /\ outcome.result.error = [kind |-> [name |-> "ExpectedRange"], range |-> <<1, 1>>]

(***************************************************************************)
(* C17 The range of the substring filters maps 1-based indices to a        *)
(* 0-based half-open range: `N` parses to FromTo(N-1, N), `N-M` to         *)
(* FromTo(N-1, M), `N-` to From(N-1) and `-M` to To(M), for the forward    *)
(* code n and the backward code N alike.                                   *)
(***************************************************************************)
C17_RangeIsZeroBasedHalfOpen ==
    (outcome.op = "Filter::parse" /\ CodeChar \in {"n", "N"}) =>
        LET text == ArgumentText
            k == LeadingDigits(text)
            first == NumberOf(SubSeq(text, 1, k))
            dashed == k < Len(text) /\ text[k + 1] = "-"
            rest == SubSeq(text, k + 2, Len(text))
            m == LeadingDigits(rest)
            second == NumberOf(SubSeq(rest, 1, m))
            kind == IF CodeChar = "n" THEN "Substring" ELSE "SubstringBackward"
            parsedTo(range) ==
                /\ outcome.result.ok
                /\ outcome.result.value = [kind |-> kind, range |-> range]
        IN  /\ (k > 0 /\ first > 0 /\ ~dashed) => parsedTo(RangeFromTo(first - 1, first))
            /\ (k > 0 /\ first > 0 /\ dashed /\ m > 0 /\ second >= first) =>
                  parsedTo(RangeFromTo(first - 1, second))
            /\ (k > 0 /\ first > 0 /\ dashed /\ m = 0) => parsedTo(RangeFrom(first - 1))
            /\ (k = 0 /\ dashed /\ m > 0 /\ second > 0) => parsedTo(RangeTo(second))

\* `N2-3` has been parsed to SubstringBackward(FromTo(1, 3))
C17_Witness ==
    /\ outcome.op = "Filter::parse"
    /\ outcome.before = ReaderFrom(<<"N", "2", "-", "3">>)
    /\ outcome.result.ok
    /\ outcome.result.value.range = RangeFromTo(1, 3)

(***************************************************************************)
(* C18 Substring(FromTo(a, b)) returns the characters at the 0-based       *)
(* positions a up to but excluding b counted from the start,               *)
(* SubstringBackward(FromTo(a, b)) those at the same positions counted     *)
(* from the end, in their original order; indices beyond the length are    *)
(* clamped and never produce an error.                                     *)
(***************************************************************************)
\* The characters of value[i..] whose position, counted from the start or
\* from the end, is in a..b-1
RECURSIVE Keep(_, _, _, _, _)
Keep(value, i, a, b, backward) ==
    IF i > Len(value) THEN <<>>
    ELSE LET position == IF backward THEN Len(value) - i ELSE i - 1
         IN  (IF a <= position /\ position < b THEN <<value[i]>> ELSE <<>>)
                 \o Keep(value, i + 1, a, b, backward)

C18_SubstringCountsFromStartOrEnd ==
    outcome.op = "Filter::eval" =>
        /\ outcome.result.ok
        /\ outcome.filter.range.type = "FromTo" =>
              outcome.result.value =
                  Keep(outcome.value, 1, outcome.filter.range.start,
                       outcome.filter.range.end, outcome.filter.kind = "SubstringBackward")
        /\ (outcome.value = <<"a", "b", "c", "d", "e">>
                /\ outcome.filter.range = RangeFromTo(1, 3)) =>
              outcome.result.value =
                  (IF outcome.filter.kind = "Substring" THEN <<"b", "c">> ELSE <<"c", "d">>)

\* SubstringBackward(FromTo(1, 3)) has been evaluated on "abcde"
C18_Witness ==
    /\ outcome.op = "Filter::eval"
    /\ outcome.filter = [kind |-> "SubstringBackward", range |-> RangeFromTo(1, 3)]
    /\ outcome.value = <<"a", "b", "c", "d", "e">>
    /\ outcome.result = FilterOk(<<"c", "d">>)

(***************************************************************************)
(* C19 Capture references are 1-indexed: a digit-led code whose number is  *)
(* 0 fails with RegexCaptureZero over the digits read, no variable parser  *)
(* returns a capture reference with index 0, and a number n > 0 parses to  *)
(* the capture reference n after all leading digits have been read.        *)
(***************************************************************************)
C19_CaptureReferencesAreOneIndexed ==
    (outcome.op \in {"Variable::parse", "Variable::parse(string)"}
         /\ CodeChar \in DecimalDigits) =>
        LET text == SubSeq(outcome.before.chars, outcome.before.index + 1,
                           Len(outcome.before.chars))
            k == LeadingDigits(text)
            n == NumberOf(SubSeq(text, 1, k))
        IN  /\ outcome.result.ok => outcome.result.value.index > 0
            /\ outcome.op = "Variable::parse" =>
                  IF n = 0
                  THEN /\ ~outcome.result.ok
                       /\ outcome.result.error =
                              [kind |-> [name |-> "RegexCaptureZero"],
                               range |-> <<CodeOffset, CodeOffset + k>>]
                  ELSE /\ outcome.result.ok
                       /\ outcome.result.value = [kind |-> "RegexCapture", index |-> n]
                       /\ outcome.after.index = outcome.before.index + k

(***************************************************************************)
(* C11 An unmatched brace is never a failure of the Lexer: outside an      *)
(* expression a single `}` yields ExprEnd, inside an expression `{` yields *)
(* a further ExprStart and leaves the expression open, and at the end of   *)
(* input an open expression just ends the tokens.  Parsing reports it:     *)
(* such a source is not parsed, and "{" gives UnmatchedExprStart, 0..1.    *)
(***************************************************************************)
C11_UnmatchedBraceIsReportedByParsing ==
    /\ lexState # "panicked"
    /\ (/\ ~lexer.in_expression
        /\ lexer.character = EXPR_END
        /\ SourcePeek(source, lexer.index) # EXPR_END) =>
           LET r == NextOutsideExpressionResult(source, lexer)
           IN  /\ r.kind = "token"
               /\ r.token.typ = "ExprEnd"
               /\ ~r.lexer.in_expression
    /\ (lexer.in_expression /\ lexer.character = EXPR_START) =>
           LET r == NextInExpressionResult(source, lexer)
           IN  /\ r.kind = "token"
               /\ r.token.typ = "ExprStart"
               /\ r.lexer.in_expression
    /\ (lexer.in_expression /\ lexer.character = None) =>
           NextInExpressionResult(source, lexer).kind = "none"
    /\ parsed # NoParsed =>
          /\ lexer.in_expression => parsed.kind = "Err"
          /\ (\E k \in 1..Len(tokens) :
                 \/ tokens[k].typ = "ExprEnd" /\ ~tokens[k].inside
                 \/ tokens[k].typ = "ExprStart" /\ tokens[k].inside)
                => parsed.kind = "Err"
          /\ source = <<"{">> => parsed = ParsedErr("UnmatchedExprStart", <<0, 1>>)
          /\ source = <<"}">> => parsed = ParsedErr("UnmatchedExprEnd", <<0, 1>>)

\* Pattern::parse("{") has returned its error
C11_Witness ==
    /\ source = <<"{">>
    /\ Emitted = << <<"ExprStart", <<>>, 0>> >>
    /\ lexState = "ended"
    /\ parsed = ParsedErr("UnmatchedExprStart", <<0, 1>>)

\* The source has neither a brace nor a pipe
Plain(s) == \A i \in 1..Len(s) : s[i] \notin Specials

(***************************************************************************)
(* C13 For any source with no unescaped `{`, `}`, `|`, parsing it and      *)
(* evaluating the pattern against any input returns the source unchanged.  *)
(* Here a brace counts as escaped when it belongs to a `{{` or `}}` pair,  *)
(* and the source has no pipe at all.                                      *)
(***************************************************************************)
C13_SourceWithoutSpecialsIsReturnedUnchanged ==
    (/\ OutsideText(source).ok
     /\ PIPE \notin {source[i] : i \in 1..Len(source)}
     /\ Succeeded(1)) => eval[1].result.output = source

(***************************************************************************)
(* C13 (amended) For any source whose braces all belong to `{{` or `}}`    *)
(* pairs, parsing succeeds with constants only and evaluating the pattern  *)
(* against any input returns the source with every `{{` replaced by `{`    *)
(* and every `}}` by `}`; a pipe is copied as it is.  A source with no     *)
(* brace and no pipe is returned unchanged.                                *)
(***************************************************************************)
C13_EscapedSourceIsReturnedUnescaped ==
    OutsideText(source).ok =>
        /\ parsed # NoParsed =>
              /\ parsed.kind = "Ok"
              /\ \A i \in 1..Len(parsed.items) : parsed.items[i].value.type = "Constant"
        /\ Done(1) =>
              /\ Succeeded(1)
              /\ eval[1].result.output = OutsideText(source).text
              /\ Plain(source) => eval[1].result.output = source

\* `a{{é` has been parsed and evaluated to `a{é`
C13_Witness ==
    /\ source = <<"a", "{", "{", "é">>
    /\ Succeeded(1)
    /\ eval[1].result.output = <<"a", "{", "é">>

\* The ranges of a sequence of nodes follow one another from `from` to `to`
\* with no gap, and none is empty
Tiles(nodes, from, to) ==
    /\ \A i \in 1..Len(nodes) : nodes[i].range[1] < nodes[i].range[2]
    /\ nodes # <<>> => nodes[1].range[1] = from /\ nodes[Len(nodes)].range[2] = to
    /\ nodes = <<>> => from = to
    /\ \A i \in 1..(Len(nodes) - 1) : nodes[i + 1].range[1] = nodes[i].range[2]

(***************************************************************************)
(* C20 The byte ranges of a parsed Pattern do not overlap and cover the    *)
(* source: the first item starts at 0, each item starts where the one      *)
(* before it ends, the last item ends at the length of the source in       *)
(* bytes, and the ranges of the filters of an expression lie between its   *)
(* braces, in order and without overlap.                                   *)
(***************************************************************************)
C20_RangesCoverTheSource ==
    parsed.kind = "Ok" =>
        /\ Tiles(parsed.items, 0, ByteLen(source))
        /\ \A i \in 1..Len(parsed.items) :
              LET it == parsed.items[i]
              IN  it.value.type = "Expression" =>
                    LET fs_ == it.value.filters
                    IN  /\ \A j \in 1..Len(fs_) :
                              /\ it.range[1] < fs_[j].range[1]
                              /\ fs_[j].range[1] < fs_[j].range[2]
                              /\ fs_[j].range[2] < it.range[2]
                        /\ \A j \in 1..(Len(fs_) - 1) :
                              fs_[j].range[2] <= fs_[j + 1].range[1]

\* `{a|a}` has been parsed: one expression over 0..5, its filters at 1..2
\* and 3..4
C20_Witness ==
    /\ source = <<"{", "a", "|", "a", "}">>
    /\ parsed.kind = "Ok"
    /\ Len(parsed.items) = 1
    /\ parsed.items[1].range = <<0, 5>>
    /\ Len(parsed.items[1].value.filters) = 2
    /\ parsed.items[1].value.filters[1].range = <<1, 2>>
    /\ parsed.items[1].value.filters[2].range = <<3, 4>>

\* The mode the lexer is in after the token k
ModeAfter(k) == IF k < Len(tokens) THEN tokens[k + 1].inside ELSE lexer.in_expression

\* The indices of the ExprStart and ExprEnd tokens emitted so far
BraceTokens == {k \in 1..Len(tokens) : tokens[k].typ \in {"ExprStart", "ExprEnd"}}

(***************************************************************************)
(* C27 The mode of the Lexer follows the brace tokens: in_expression is    *)
(* true exactly when the last ExprStart or ExprEnd token emitted is an     *)
(* ExprStart, and false when none was emitted.  Raw and Pipe tokens keep   *)
(* the mode, ExprStart inside an expression leaves it inside and ExprEnd   *)
(* outside leaves it outside.                                              *)
(***************************************************************************)
C27_ModeFollowsBraceTokens ==
    /\ lexer.in_expression <=>
          /\ BraceTokens # {}
          /\ LET last == CHOOSE k \in BraceTokens : \A j \in BraceTokens : j <= k
             IN  tokens[last].typ = "ExprStart"
    /\ \A k \in 1..Len(tokens) :
          /\ tokens[k].typ \in {"Raw", "Pipe"} => ModeAfter(k) = tokens[k].inside
          /\ tokens[k].typ = "ExprStart" => ModeAfter(k)
          /\ tokens[k].typ = "ExprEnd" => ~ModeAfter(k)
    /\ (tokens = <<>> /\ source # <<>>) => ~lexer.in_expression

\* `{a{` has been lexed: the second ExprStart is met inside the expression
\* and the lexer stays inside
C27_Witness ==
    /\ source = <<"{", "a", "{">>
    /\ lexState = "ended"
    /\ Emitted = << <<"ExprStart", <<>>, 0>>, <<"Raw", <<"a">>, 1>>,
                    <<"ExprStart", <<>>, 2>> >>
    /\ tokens[3].inside
    /\ lexer.in_expression

\* What the next call of next() returns in the current state
NextResult ==
    IF lexer.in_expression
    THEN NextInExpressionResult(source, lexer)
    ELSE NextOutsideExpressionResult(source, lexer)

\* The token types that may follow a Raw token emitted in the given mode
AfterRaw(inside) ==
    IF inside THEN {"ExprStart", "ExprEnd", "Pipe"} ELSE {"ExprStart", "ExprEnd"}

(***************************************************************************)
(* C28 Raw tokens are maximal and never empty: the text of a Raw token is  *)
(* not empty, the token after a Raw token is never Raw, it is ExprStart,   *)
(* ExprEnd, or Pipe when inside an expression, or the tokens end there;    *)
(* the source character after a Raw token is one the mode treats as        *)
(* special.                                                                *)
(***************************************************************************)
C28_RawTokensAreMaximal ==
    \A k \in 1..Len(tokens) :
        LET t == tokens[k]
        IN  /\ t.typ = "Raw" =>
                  /\ t.raw # <<>>
                  /\ t.first < t.last
                  /\ CharAt(t.last) \in
                         (IF t.inside THEN Specials ELSE Braces) \cup {None}
                  /\ k < Len(tokens) => tokens[k + 1].typ \in AfterRaw(t.inside)
                  /\ (k = Len(tokens) /\ lexState = "running") =>
                        \/ NextResult.kind = "none"
                        \/ /\ NextResult.kind = "token"
                           /\ NextResult.token.typ \in AfterRaw(t.inside)
                  /\ CharAt(t.last) = None => (k = Len(tokens) /\ NextResult.kind = "none")
            /\ t.typ = "Pipe" => t.inside

\* `a{aé|` has been lexed: Raw, ExprStart, Raw("aé"), Pipe
C28_Witness ==
    /\ source = <<"a", "{", "a", "é", "|">>
    /\ lexState = "ended"
    /\ Len(tokens) = 4
    /\ tokens[1].typ = "Raw" /\ tokens[2].typ = "ExprStart"
    /\ tokens[3].typ = "Raw" /\ tokens[3].raw = <<"a", "é">>
    /\ tokens[4].typ = "Pipe"

\* Every token was made from at least one source character, the tokens are
\* no more than the characters, and the end is reached with all of the
\* source consumed
TokensConsume ==
    /\ \A k \in 1..Len(tokens) : tokens[k].first < tokens[k].last
    /\ \A k \in 1..(Len(tokens) - 1) : tokens[k].last = tokens[k + 1].first
    /\ Len(tokens) <= Len(source)
    /\ NextResult.kind = "token" => Consumed(lexer) < Consumed(NextResult.lexer)
    /\ lexState = "ended" =>
          /\ lexer.character = None
          /\ Consumed(lexer) = Len(source)
          /\ NextResult = [kind |-> "none", lexer |-> lexer]

\* A call of next() after None has been returned changes nothing
Fused == lexState = "ended" => UNCHANGED <<lexer, tokens, lexState>>

(***************************************************************************)
(* C29 The Lexer terminates and is fused: every call of next() returning a *)
(* token consumes at least one source character, so a source of n          *)
(* characters gives at most n tokens before None, and once None has been   *)
(* returned every later call returns None and leaves the lexer as it is.   *)
(***************************************************************************)
C29_LexerTerminatesAndIsFused == []TokensConsume /\ [][Fused]_vars

\* `{|a` has given three tokens from its three characters and then None
C29_Witness ==
    /\ source = <<"{", "|", "a">>
    /\ lexState = "ended"
    /\ Len(tokens) = 3
    /\ NextResult.kind = "none"

\* Some Expression item of the pattern holds a filter of the given variant
Present(kind) ==
    \E i \in 1..Len(pattern) :
        /\ pattern[i].value.type = "Expression"
        /\ \E j \in 1..Len(pattern[i].value.filters) :
               pattern[i].value.filters[j].value.kind = kind

\* The filter variant a query asks for
QueryKind(query) ==
    CASE query = "uses_local_counter" -> "LocalCounter"
      [] query = "uses_global_counter" -> "GlobalCounter"
      [] query = "uses_regex_capture" -> "RegexCapture"

IsConstant(item) == item.value.type = "Constant"
IsExpression(item) == item.value.type = "Expression"

(***************************************************************************)
(* C21 The static queries are exact: uses_local_counter (uses_global_      *)
(* counter, uses_regex_capture) is true exactly when some Expression item  *)
(* holds a LocalCounter (GlobalCounter, RegexCapture) filter at some       *)
(* position of its chain.  Constants make no query true, and each answer   *)
(* depends on the filters of its own variant alone.                        *)
(***************************************************************************)
C21_StaticQueriesAreExact ==
    /\ outcome # NoOutcome =>
          /\ outcome.op \in Queries
          /\ outcome.result = Present(QueryKind(outcome.op))
    /\ \A q \in Queries :
          /\ UsesFilter(pattern, q) = Present(QueryKind(q))
          /\ ~UsesFilter(SelectSeq(pattern, IsConstant), q)
          /\ UsesFilter(SelectSeq(pattern, IsExpression), q) = UsesFilter(pattern, q)

\* uses_regex_capture has answered true for a capture that is the second
\* filter of the chain, after a constant
C21_Witness ==
    /\ Len(pattern) = 2
    /\ IsConstant(pattern[1])
    /\ IsExpression(pattern[2])
    /\ Len(pattern[2].value.filters) = 2
    /\ pattern[2].value.filters[1].value = FilterFileName
    /\ pattern[2].value.filters[2].value = FilterRegexCapture(2)
    /\ outcome = [op |-> "uses_regex_capture", result |-> TRUE]

\* The last component of the path names a file with an extension: it is not
\* `..` and has a `.` after its first character
HasExtension(path) ==
    /\ path # <<>>
    /\ path[Len(path)] # ParentDir
    /\ \E i \in 2..Len(path[Len(path)]) : path[Len(path)][i] = "."

(***************************************************************************)
(* C24 Variable::eval of RegexCapture(i) never fails: it gives the text of *)
(* group i when the context holds captures and group i took part in the    *)
(* match, the empty string when there are no captures or no group i.  The  *)
(* path variables give the empty string when the path lacks the component: *)
(* Extension and ExtensionWithDot without an extension, FullDirname and    *)
(* ParentDirname without a parent.                                         *)
(***************************************************************************)
C24_MissingPartsEvaluateToEmpty ==
    outcome # NoOutcome =>
        LET ctx == context[1]
            path == ctx.path
            value == outcome.result.value
        IN  /\ outcome.result.ok
            /\ outcome.variable = "RegexCapture" =>
                  LET i == outcome.index
                      there == /\ ctx.regex_captures.some
                               /\ i + 1 <= Len(ctx.regex_captures.value)
                               /\ ctx.regex_captures.value[i + 1].some
                  IN  /\ there => value = ctx.regex_captures.value[i + 1].value
                      /\ ~there => value = <<>>
            /\ outcome.variable \in {"Extension", "ExtensionWithDot"} =>
                  (~HasExtension(path) => value = <<>>)
            /\ outcome.variable = "ExtensionWithDot" =>
                  (HasExtension(path) => (value # <<>> /\ value[1] = "."))
            /\ outcome.variable \in {"FullDirname", "ParentDirname"} =>
                  (Len(path) <= 1 => value = <<>>)
            /\ outcome.variable = "FullDirname" =>
                  (Len(path) >= 2 => value = PathToString(SubSeq(path, 1, Len(path) - 1)))
            /\ outcome.variable = "ParentDirname" =>
                  (Len(path) >= 2 /\ path[Len(path) - 1] # ParentDir
                       => value = path[Len(path) - 1])
            /\ (path = <<<<"r">>, <<"r">>, <<"f", ".", "e">>>>) =>
                  /\ outcome.variable = "Filename" => value = <<"f", ".", "e">>
                  /\ outcome.variable = "Basename" => value = <<"f">>
                  /\ outcome.variable = "Extension" => value = <<"e">>
                  /\ outcome.variable = "ExtensionWithDot" => value = <<".", "e">>
                  /\ outcome.variable = "FullDirname" => value = <<"r", "/", "r">>
                  /\ outcome.variable = "ParentDirname" => value = <<"r">>
                  /\ outcome.variable = "FullPath" =>
                         value = <<"r", "/", "r", "/", "f", ".", "e">>

\* RegexCapture(2) has been evaluated to the empty string in a context whose
\* captures hold groups 0 and 1 only
C24_Witness ==
    /\ outcome # NoOutcome
    /\ outcome.variable = "RegexCapture"
    /\ outcome.index = 2
    /\ context[1].regex_captures = Some(<<Some(<<"a", "x">>), Some(<<"x">>)>>)
    /\ outcome.result = FilterOk(<<>>)

\* The characters of the source that lie in the bytes [from, to)
CharsWithin(from, to) ==
    {i \in 1..Len(source) :
        /\ from <= ByteLen(SubSeq(source, 1, i - 1))
        /\ ByteLen(SubSeq(source, 1, i)) <= to}

(***************************************************************************)
(* C26 highlight_range underlines by character columns, not bytes: the     *)
(* marker line is one space for each character of string[..range.start],   *)
(* then one caret for each character of string[range.start..range.end],    *)
(* and at least one caret, so an empty range is marked by one caret.       *)
(***************************************************************************)
C26_MarkersCountCharacters ==
    (outcome # NoOutcome /\ outcome.kind = "Ok") =>
        LET range == parsed.error.range
            spaces == Cardinality(CharsWithin(0, range[1]))
            carets == Cardinality(CharsWithin(range[1], range[2]))
            markers == outcome.lines[2]
        IN  /\ outcome.lines[1] = source
            /\ Len(markers) = spaces + (IF carets = 0 THEN 1 ELSE carets)
            /\ \A i \in 1..Len(markers) :
                  markers[i] = (IF i <= spaces THEN " " ELSE "^")
            /\ range[1] = range[2] => Len(markers) = spaces + 1

\* In `é{a` the range 2..3 of `{` has been marked under the second column
C26_Witness ==
    /\ source = <<"é", "{", "a">>
    /\ parsed.error.range = <<2, 3>>
    /\ outcome # NoOutcome
    /\ outcome.kind = "Ok"
    /\ outcome.lines = << <<"é", "{", "a">>, <<" ", "^">> >>

\* The values of the input read left to right: the bytes before each
\* delimiter, and the bytes after the last one if there are any.  `ended`
\* tells whether the delimiter followed.
RECURSIVE SplitValues(_, _, _)
SplitValues(bytes, delimiter, current) ==
    IF bytes = <<>>
    THEN IF current = <<>> THEN <<>> ELSE <<[raw |-> current, ended |-> FALSE]>>
    ELSE IF Head(bytes) = delimiter
         THEN <<[raw |-> current, ended |-> TRUE]>>
                  \o SplitValues(Tail(bytes), delimiter, <<>>)
         ELSE SplitValues(Tail(bytes), delimiter, Append(current, Head(bytes)))

\* A value as next() is to return it: without the carriage return that
\* stood before a removed line feed
ValueOf(v, delimiter) ==
    IF v.ended /\ delimiter = LF /\ v.raw # <<>> /\ v.raw[Len(v.raw)] = CR
    THEN SubSeq(v.raw, 1, Len(v.raw) - 1)
    ELSE v.raw

\* The bytes a value took from the input, its delimiter included
SizeOf(v) == Len(v.raw) + (IF v.ended THEN 1 ELSE 0)

RECURSIVE SumSizes(_, _)
SumSizes(values, n) == IF n = 0 THEN 0 ELSE SizeOf(values[n]) + SumSizes(values, n - 1)

IsUtf8(bytes) == \A i \in 1..Len(bytes) : bytes[i] # "xFF"

\* The results of the calls of next() whose read did not fail
Reads == SelectSeq(returned, LAMBDA r : r # InputIoError)

(***************************************************************************)
(* C25 Input::next over stdin returns the values in stream order, each     *)
(* without its delimiter, and with a newline delimiter without the         *)
(* carriage return before it; a last value without delimiter is returned   *)
(* as it is, a lone delimiter gives the empty value, and None is returned  *)
(* exactly when no byte remains.  Without a delimiter all of the input is  *)
(* one value.  This is said of every input, whatever its bytes.            *)
(***************************************************************************)
C25_NextReturnsTheValuesInOrder ==
    LET values == SplitValues(stream.input, stream.delimiter, <<>>)
    IN  \A k \in 1..Len(Reads) :
            Reads[k] = (IF k <= Len(values)
                        THEN InputSome(ValueOf(values[k], stream.delimiter))
                        ELSE InputNone)

(***************************************************************************)
(* C25 (amended) The same for every value whose bytes are UTF-8; a value   *)
(* whose bytes are not UTF-8 is consumed like the others, and in its place *)
(* next() returns an InvalidData error with the offset of the first such   *)
(* byte in the value.                                                      *)
(***************************************************************************)
C25_NextReturnsTheUtf8ValuesInOrder ==
    LET values == SplitValues(stream.input, stream.delimiter, <<>>)
        taken == IF Len(Reads) <= Len(values) THEN Len(Reads) ELSE Len(values)
    IN  /\ \A k \in 1..Len(Reads) :
              IF k <= Len(values)
              THEN LET value == ValueOf(values[k], stream.delimiter)
                   IN  IF IsUtf8(value)
                       THEN Reads[k] = InputSome(value)
                       ELSE /\ Reads[k].kind = "Err"
                            /\ Reads[k].error = "InvalidData"
                            /\ Reads[k].offset < Len(value)
                            /\ value[Reads[k].offset + 1] = "xFF"
                            /\ IsUtf8(SubSeq(value, 1, Reads[k].offset))
              ELSE Reads[k] = InputNone
        /\ stream.index = SumSizes(values, taken)
        /\ (Reads # <<>> /\ Reads[Len(Reads)] = InputNone) => stream.index = Len(stream.input)
        /\ stream.delimiter = None => Len(values) <= 1

\* `a CR LF LF` read by lines: the value `a`, the empty value, then None
C25_Witness ==
    /\ stream.input = <<"a", CR, LF, LF>>
    /\ stream.delimiter = LF
    /\ returned = <<InputSome(<<"a">>), InputSome(<<>>), InputNone>>

\* The values of the input of a PathDiff, as the splitter cuts them
DiffValuesOf(bytes) == SplitValues(bytes, LF, <<>>)

\* The prefix the value at a 1-based index has to start with
PrefixAt(i) == IF i % 2 = 1 THEN DIFF_IN ELSE DIFF_OUT

\* A value that starts with the prefix and has a path after it
GoodValue(raw, prefix) == Len(raw) > 1 /\ raw[1] = prefix

\* The index of the first result that is an error, past the end when none is
FirstError ==
    LET errors == {k \in 1..Len(returned) : returned[k].kind = "Err"}
    IN  IF errors = {} THEN Len(returned) + 1
        ELSE CHOOSE k \in errors : \A j \in errors : k <= j

\* The number of pairs among the first n results
PairsBefore(n) == Cardinality({j \in 1..n : returned[j].kind = "Some"})

(***************************************************************************)
(* C22 Until its first error PathDiff::read takes the values in strict     *)
(* alternation, a `<` value then a `>` value: the k-th pair is the values  *)
(* 2k-1 and 2k of the input without their prefix and otherwise untouched,  *)
(* Ok(None) is returned only when the input is exhausted where a `<` value *)
(* would start, and an input that ends after a `<` value gives an          *)
(* UnexpectedEof error, never Ok(None) and never a pair.                   *)
(***************************************************************************)
C22_PairsAlternateAndEndOnlyBetweenPairs ==
    LET values == DiffValuesOf(stream.input)
    IN  /\ \A k \in 1..Len(returned) :
              k < FirstError =>
                  /\ returned[k].kind = "Some" =>
                        /\ 2 * k <= Len(values)
                        /\ values[2 * k - 1].raw = <<DIFF_IN>> \o returned[k].pair[1]
                        /\ values[2 * k].raw = <<DIFF_OUT>> \o returned[k].pair[2]
                  /\ returned[k].kind = "None" =>
                        Len(values) = 2 * PairsBefore(k - 1)
        /\ \A k \in 1..Len(returned) :
              (/\ k <= FirstError
               /\ Len(values) = 2 * k - 1
               /\ GoodValue(values[2 * k - 1].raw, DIFF_IN))
                  => /\ returned[k].kind = "Err"
                     /\ returned[k].error = "UnexpectedEof"

C22_Witness ==
    /\ stream.input = <<"<", "a", LF, ">", "a", LF, "<", "a">>
    /\ Len(returned) = 2
    /\ returned[1] = DiffSome(<<"a">>, <<"a">>)
    /\ returned[2].kind = "Err"
    /\ returned[2].error = "UnexpectedEof"

\* The value at a 1-based index is not what read() expects there: it does
\* not start with its prefix and a path, or the input ended where a `>`
\* value had to follow
BadAt(values, i) ==
    IF i <= Len(values) THEN ~GoodValue(values[i].raw, PrefixAt(i))
    ELSE i % 2 = 0

\* The index of the first such value, 0 when there is none
FirstBad(values) ==
    LET bad == {i \in 1..(Len(values) + 1) : BadAt(values, i)}
    IN  IF bad = {} THEN 0 ELSE CHOOSE i \in bad : \A j \in bad : i <= j

(***************************************************************************)
(* C23 The first error PathDiff::read returns identifies the offending     *)
(* value: its item number is the 1-based index of that value in the input  *)
(* and its offset is the total size, terminators included, of the values   *)
(* before it.  A value with another first character than the expected      *)
(* prefix gives InvalidData naming that character; an empty value, a       *)
(* prefix alone and a missing `>` value give UnexpectedEof.                *)
(***************************************************************************)
C23_FirstErrorIdentifiesTheOffendingValue ==
    LET values == DiffValuesOf(stream.input)
        i == FirstBad(values)
    IN  FirstError <= Len(returned) =>
            LET e == returned[FirstError]
            IN  /\ i > 0
                /\ e.item = i
                /\ e.offset = SumSizes(values, i - 1)
                /\ e.prefix = PrefixAt(i)
                /\ IF i <= Len(values) /\ values[i].raw # <<>>
                      /\ values[i].raw[1] # PrefixAt(i)
                   THEN e.error = "InvalidData" /\ e.got = values[i].raw[1]
                   ELSE e.error = "UnexpectedEof"

C23_Witness ==
    /\ stream.input = <<"<", "a", LF, ">", "a", LF, "<", "a", LF, "a", LF>>
    /\ Len(returned) = 2
    /\ returned[2].kind = "Err"
    /\ returned[2].error = "InvalidData"
    /\ returned[2].item = 4
    /\ returned[2].offset = 9

\* A call of read() has returned
ReadReturned == Len(returned') = Len(returned) + 1

\* The values the splitter has handed out so far
ValuesTaken == Len(DiffValuesOf(SubSeq(stream.input, 1, stream.index)))

\* What a call of read() does to the position, given its result: two values
\* further after a pair, unchanged after Ok(None), and after an error not
\* moved past the value the error is about
PositionFrame ==
    LET last == returned'[Len(returned')]
        values == DiffValuesOf(stream.input)
        first_size == Len(ReadUntil(Remaining(stream), stream.delimiter))
    IN  /\ last.kind = "Some" =>
              /\ diff_position'.item = diff_position.item + 2
              /\ diff_position'.offset
                     = diff_position.offset + SizeOf(values[ValuesTaken + 1])
                                            + SizeOf(values[ValuesTaken + 2])
        /\ last.kind = "None" => diff_position' = diff_position
        /\ last.kind = "Err" =>
              /\ diff_position' = [item |-> last.item, offset |-> last.offset]
              /\ IF last.prefix = DIFF_IN
                 THEN diff_position' = diff_position
                 ELSE diff_position' = [item |-> diff_position.item + 1,
                                        offset |-> diff_position.offset + first_size]

\* After a call that returned an error the position is the one of the value
\* the error is about: its 1-based index in the input and the size of the
\* values before it.  The value is the last one taken, or the one that would
\* follow when the input ended where a `>` value was expected.
PositionAtOffendingValue ==
    LET last == returned'[Len(returned')]
        values == DiffValuesOf(stream.input)
        first_size == Len(ReadUntil(Remaining(stream), stream.delimiter))
        missing == last.prefix = DIFF_OUT /\ stream'.index = stream.index + first_size
        index == IF missing THEN ValuesTaken' + 1 ELSE ValuesTaken'
    IN  last.kind = "Err" =>
            diff_position' = [item |-> index, offset |-> SumSizes(values, index - 1)]

NoErrorReturned == \A k \in 1..Len(returned) : returned[k].kind # "Err"

InStepWithoutError == NoErrorReturned => diff_position.item - 1 = ValuesTaken

====
